---- MODULE Spec2Model ----
(***************************************************************************)
(* Model of greg-calc's equilibrium engine: the exact-rational nullspace   *)
(* solver (src/nullspace.rs), the processing chain with its memoized       *)
(* Speeds / WeightedSpeeds (src/model/processing_chain.rs), recipes        *)
(* (src/model/recipe.rs) and the voltage arithmetic (src/model/machine.rs).*)
(***************************************************************************)
EXTENDS Integers, Sequences, FiniteSets, TLC

VARIABLES
    setups,         \* ProcessingChain::setups, a sequence of Setup records
    explicit_io,    \* ProcessingChain::explicit_io, a set of products
    cache,          \* ProcessingChain::cache: two OnceCells, <<>> (empty) or <<value>>
    panicked,       \* TRUE once a call on the chain has aborted (panic)
    ns,             \* the running state of one nullspace() call
    ns_input,       \* the matrix and column count that call was given
    volt,           \* one call of the Voltage constructors: input and outcome
    mach,           \* one call into the machine populations: input and outcome
    edits,          \* how many mutating calls an editing session has made
    chain_machines, \* processing.rs ProcessingChain::machines, the earlier chain type
    thr,            \* the running state of one speeds() call of that chain
    table_rows      \* ProcessingChainTable::rows: per view mode <<>> or <<table rows>>

vars == <<setups, explicit_io, cache, panicked, ns, ns_input, volt, mach, edits,
          chain_machines, thr, table_rows>>
throttleVars == <<chain_machines, thr>>
chainVars == <<setups, explicit_io, cache, panicked>>
nsVars == <<ns, ns_input>>

(***************************************************************************)
(* Bounds of the model.                                                    *)
(***************************************************************************)
MaxCells == 6       \* nullspace inputs: at most this many matrix entries
MaxCols == 3        \* nullspace inputs: at most this many columns
MaxEntry == 2       \* nullspace inputs: integer entries in -1..MaxEntry
MaxSetups == 3      \* chains hold at most this many setups
MaxCount == 3       \* stoichiometric counts 1..MaxCount
MaxWeight == 2      \* weights 0..MaxWeight
MaxBitsSet == 2     \* eu_per_tick inputs have at most this many one-bits
NumProducts == 1    \* products are named 1..NumProducts, ordered like their names
MaxMachines == 2    \* machine counts per population 0..MaxMachines
MaxEuBit == 7       \* machine calls: recipe power of magnitude 2^k or 2^k + 1, k <= MaxEuBit
MaxClockTier == 3   \* machine calls: clocked machines of the tiers 0..MaxClockTier
MaxEdits == 2       \* editing sessions make at most this many mutating calls

(***************************************************************************)
(* malachite::Rational: exact fractions, always in lowest terms with a     *)
(* positive denominator.  A value is <<numerator, denominator>>.           *)
(***************************************************************************)
Abs(x) == IF x < 0 THEN -x ELSE x

RECURSIVE GCD(_, _)
GCD(a, b) == IF b = 0 THEN a ELSE GCD(b, a % b)

Rat(n, d) ==
    LET g == GCD(Abs(n), Abs(d))
        s == IF d < 0 THEN -1 ELSE 1
    IN  <<(s * n) \div g, (s * d) \div g>>

RatFromInt(n) == <<n, 1>>
Zero == <<0, 1>>
One == <<1, 1>>
RatAdd(a, b) == Rat(a[1] * b[2] + b[1] * a[2], a[2] * b[2])
RatNeg(a) == <<-a[1], a[2]>>
RatSub(a, b) == RatAdd(a, RatNeg(b))
RatMul(a, b) == Rat(a[1] * b[1], a[2] * b[2])
\* Division by zero panics in malachite; every caller below guards it.
RatDiv(a, b) == Rat(a[1] * b[2], a[2] * b[1])
RatLeq(a, b) == a[1] * b[2] <= b[1] * a[2]

(***************************************************************************)
(* nullspace(matrix, columns), src/nullspace.rs.  The matrix is row-major, *)
(* a function on 0..len-1 as the code indexes it.                          *)
(***************************************************************************)
MatLen(m) == Cardinality(DOMAIN m)

\* lines 17, 14-15: the loop state before the first iteration
NullspaceStart(m, columns) ==
    [matrix |-> m, columns |-> columns, unknowns |-> <<>>, nullspace |-> <<>>,
     pivot_row_index |-> 0, pivot_column |-> 0, depleted |-> FALSE]

\* lines 22-24: the indices at or below the pivot row whose entry in the
\* pivot column is nonzero; find() takes the first, if there is one
NonZeroIndices(m, pivot_index, columns) ==
    {i \in pivot_index .. (MatLen(m) - 1) :
        (i - pivot_index) % columns = 0 /\ m[i] # Zero}

FirstNonZeroIndex(m, pivot_index, columns) ==
    LET found == NonZeroIndices(m, pivot_index, columns)
    IN  CHOOSE i \in found : \A j \in found : i <= j

\* the parameters read from the second row on
ParametersSkipRow(m, pivot_column, columns) ==
    LET idx == {i \in DOMAIN m : i >= pivot_column + columns
                                   /\ (i - pivot_column) % columns = 0}
    IN  [k \in 1 .. Cardinality(idx) |-> m[pivot_column + k * columns]]

\* line 26: matrix.iter().skip(pivot_column).step_by(columns), as a sequence
Parameters(m, pivot_column, columns) ==
    LET idx == {i \in DOMAIN m : i >= pivot_column /\ (i - pivot_column) % columns = 0}
    IN  [k \in 1 .. Cardinality(idx) |-> m[pivot_column + (k - 1) * columns]]

\* the parameter taken by column instead of by pivot
PivotsBeforeAsColumn(unknowns, j) == j

\* how many of the first j entries of unknowns are pivots (0 bits)
PivotsBefore(unknowns, j) == Cardinality({k \in 1 .. j : ~unknowns[k]})

\* FreeVector with the sign of the parameters kept (the minus of line 34 lost)
FreeVectorUnnegated(m, unknowns, pivot_column, columns) ==
    LET parameters == [k \in 1 .. Len(unknowns) |->
                          m[pivot_column + (k - 1) * columns]]
    IN  [j \in 1 .. columns |->
            IF j <= Len(unknowns)
            THEN IF unknowns[j] THEN Zero
                 ELSE parameters[Cardinality({k \in 1 .. j : ~unknowns[k]})]
            ELSE IF j = Len(unknowns) + 1 THEN One ELSE Zero]

\* lines 27-42: the basis vector of a free column
FreeVector(m, unknowns, pivot_column, columns) ==
    LET parameters == Parameters(m, pivot_column, columns)
    IN  [j \in 1 .. columns |->
            IF j <= Len(unknowns)
            THEN IF unknowns[j] THEN Zero
                 ELSE RatNeg(parameters[PivotsBefore(unknowns, j)])
            ELSE IF j = Len(unknowns) + 1 THEN One ELSE Zero]

\* line 36: parameters.next() is asked for more entries than the column has
ParametersDepleted(m, unknowns, pivot_column, columns) ==
    PivotsBefore(unknowns, Len(unknowns)) > Len(Parameters(m, pivot_column, columns))

\* lines 48-51: swap the found row into the pivot row, from the pivot column on
SwapRows(m, pivot_index, first_non_zero_index, width) ==
    IF first_non_zero_index = pivot_index THEN m
    ELSE [i \in DOMAIN m |->
            IF i >= pivot_index /\ i < pivot_index + width
            THEN m[first_non_zero_index + (i - pivot_index)]
            ELSE IF i >= first_non_zero_index /\ i < first_non_zero_index + width
            THEN m[pivot_index + (i - first_non_zero_index)]
            ELSE m[i]]

\* lines 53-66: the rows are visited top to bottom; the pivot row is scaled
\* when its turn comes, every other row has the pivot column eliminated
RECURSIVE Eliminate(_, _, _, _, _)
Eliminate(m, row_index, pivot_index, width, columns) ==
    IF row_index >= MatLen(m) THEN m
    ELSE LET next ==
               IF row_index = pivot_index
               THEN LET factor == m[pivot_index]
                    IN  [i \in DOMAIN m |->
                            IF i = pivot_index THEN One
                            ELSE IF i > pivot_index /\ i < pivot_index + width
                            THEN RatDiv(m[i], factor)
                            ELSE m[i]]
               ELSE LET factor == RatDiv(m[row_index], m[pivot_index])
                    IN  [i \in DOMAIN m |->
                            IF i = row_index THEN Zero
                            ELSE IF i > row_index /\ i < row_index + width
                            THEN RatSub(m[i], RatMul(factor, m[pivot_index + (i - row_index)]))
                            ELSE m[i]]
         IN  Eliminate(next, row_index + columns, pivot_index, width, columns)

\* lines 18-69: one iteration of the loop over the pivot columns
NullspaceIter(s) ==
    LET columns == s.columns
        pivot_index == s.pivot_row_index + s.pivot_column
        width == columns - s.pivot_column
        first_non_zero_index == FirstNonZeroIndex(s.matrix, pivot_index, columns)
    IN  IF NonZeroIndices(s.matrix, pivot_index, columns) = {}
        THEN IF ParametersDepleted(s.matrix, s.unknowns, s.pivot_column, columns)
             THEN [s EXCEPT !.depleted = TRUE]
             ELSE [s EXCEPT
                     !.nullspace = @ \o FreeVector(s.matrix, s.unknowns, s.pivot_column, columns),
                     !.unknowns = Append(@, TRUE),
                     !.pivot_column = @ + 1]
        ELSE [s EXCEPT
                !.unknowns = Append(@, FALSE),
                !.matrix = Eliminate(
                    SwapRows(s.matrix, pivot_index, first_non_zero_index, width),
                    s.pivot_column, pivot_index, width, columns),
                !.pivot_row_index = @ + columns,
                !.pivot_column = @ + 1]

RECURSIVE NullspaceLoop(_)
NullspaceLoop(s) ==
    IF s.depleted \/ s.pivot_column >= s.columns THEN s
    ELSE NullspaceLoop(NullspaceIter(s))

\* lines 9-72: the whole call.  Line 11 takes matrix.len() % columns, which
\* aborts for columns = 0 and when the length is no multiple of columns.
nullspace(m, columns) ==
    IF columns = 0 \/ MatLen(m) % columns # 0
    THEN [panic |-> TRUE, unknowns |-> <<>>, nullspace |-> <<>>]
    ELSE LET s == NullspaceLoop(NullspaceStart(m, columns))
         IN  [panic |-> s.depleted, unknowns |-> s.unknowns, nullspace |-> s.nullspace]

(***************************************************************************)
(* Idle values of the state the specification at hand does not use.        *)
(***************************************************************************)
EmptyCache == [speeds |-> <<>>, weighted_speeds |-> <<>>]
NsIdle == [pc |-> "idle"]
NsInputIdle == [matrix |-> <<>>, columns |-> 0]
VoltIdle == [pc |-> "idle"]
MachIdle == [pc |-> "idle"]
ThrIdle == [pc |-> "idle"]
ViewModes == {"Recipe", "Setup", "Speed"}
NoRows == [view_mode \in ViewModes |-> <<>>]

(***************************************************************************)
(* SpecNullspace: one call of nullspace() on a bounded matrix, one loop    *)
(* iteration per step.                                                     *)
(***************************************************************************)
Entries == {RatFromInt(n) : n \in -1 .. MaxEntry}

Shapes == {sh \in (0 .. MaxCols) \X (0 .. MaxCells) : sh[1] * sh[2] <= MaxCells}

NsInputs ==
    UNION {[matrix : [0 .. (sh[1] * sh[2] - 1) -> Entries], columns : {sh[1]}] :
              sh \in {x \in Shapes : x[1] > 0 \/ x[2] = 0}}

InitNullspace ==
    /\ ns_input \in NsInputs
    /\ ns = [pc |-> "call"]
    /\ setups = <<>> /\ explicit_io = {} /\ cache = EmptyCache /\ panicked = FALSE /\ edits = 0
    /\ volt = VoltIdle /\ mach = MachIdle
    /\ chain_machines = <<>> /\ thr = ThrIdle /\ table_rows = NoRows

\* lines 10-17: the entry checks and the initial loop state
NullspaceEnter ==
    /\ ns.pc = "call"
    /\ ns' = IF ns_input.columns = 0
                 \/ MatLen(ns_input.matrix) % ns_input.columns # 0
             THEN [pc |-> "panic"]
             ELSE [pc |-> "loop", iterations |-> 0,
                   st |-> NullspaceStart(ns_input.matrix, ns_input.columns)]
    /\ UNCHANGED <<ns_input, chainVars, volt, mach, edits, throttleVars, table_rows>>

\* lines 18-69: one iteration
NullspaceStep ==
    /\ ns.pc = "loop"
    /\ ns.st.pivot_column < ns.st.columns
    /\ LET next == NullspaceIter(ns.st)
       IN  ns' = IF next.depleted
                 THEN [pc |-> "panic"]
                 ELSE [ns EXCEPT !.st = next, !.iterations = @ + 1]
    /\ UNCHANGED <<ns_input, chainVars, volt, mach, edits, throttleVars, table_rows>>

\* line 71: the loop is over, the pair is returned
NullspaceReturn ==
    /\ ns.pc = "loop"
    /\ ns.st.pivot_column >= ns.st.columns
    /\ ns' = [pc |-> "done", iterations |-> ns.iterations,
              unknowns |-> ns.st.unknowns, nullspace |-> ns.st.nullspace,
              matrix |-> ns.st.matrix]
    /\ UNCHANGED <<ns_input, chainVars, volt, mach, edits, throttleVars, table_rows>>

NextNullspace == NullspaceEnter \/ NullspaceStep \/ NullspaceReturn

SpecNullspace == InitNullspace /\ [][NextNullspace]_vars

(***************************************************************************)
(* Linear algebra the nullspace claims are stated with: matrix-vector      *)
(* products and the rank by minors.                                        *)
(***************************************************************************)
RowCount(m, columns) == MatLen(m) \div columns

\* chunk k (from 0) of a flat list of vectors of length columns
Chunk(flat, k, columns) == [j \in 1 .. columns |-> flat[k * columns + j]]

RECURSIVE DotFrom(_, _, _, _, _)
DotFrom(m, columns, r, v, c) ==
    IF c >= columns THEN Zero
    ELSE RatAdd(RatMul(m[r * columns + c], v[c + 1]), DotFrom(m, columns, r, v, c + 1))

\* matrix x v = 0 in every row
InKernel(m, columns, v) ==
    \A r \in 0 .. (RowCount(m, columns) - 1) : DotFrom(m, columns, r, v, 0) = Zero

RemoveAt(seq, j) == SubSeq(seq, 1, j - 1) \o SubSeq(seq, j + 1, Len(seq))

RECURSIVE SortedSeq(_)
SortedSeq(S) ==
    IF S = {} THEN <<>>
    ELSE LET x == CHOOSE y \in S : \A z \in S : y <= z
         IN  <<x>> \o SortedSeq(S \ {x})

RECURSIVE Det(_, _, _, _)
RECURSIVE DetSum(_, _, _, _, _)
Det(m, columns, rs, cs) ==
    IF Len(rs) = 0 THEN One ELSE DetSum(m, columns, rs, cs, 1)
DetSum(m, columns, rs, cs, j) ==
    IF j > Len(cs) THEN Zero
    ELSE LET term == RatMul(m[rs[1] * columns + cs[j]],
                            Det(m, columns, Tail(rs), RemoveAt(cs, j)))
         IN  RatAdd(IF j % 2 = 1 THEN term ELSE RatNeg(term),
                    DetSum(m, columns, rs, cs, j + 1))

HasMinor(m, columns, k) ==
    \E R \in SUBSET (0 .. (RowCount(m, columns) - 1)) :
        \E C \in SUBSET (0 .. (columns - 1)) :
            /\ Cardinality(R) = k
            /\ Cardinality(C) = k
            /\ Det(m, columns, SortedSeq(R), SortedSeq(C)) # Zero

Rank(m, columns) ==
    CHOOSE k \in 0 .. columns :
        /\ HasMinor(m, columns, k)
        /\ \A k2 \in (k + 1) .. columns : ~HasMinor(m, columns, k2)

\* C2: every basis vector nullspace() returns is in the kernel of the
\* matrix it was given, and there are columns - rank of them.
C2_NullspaceBasis ==
    ns.pc = "done" =>
        LET m == ns_input.matrix
            columns == ns_input.columns
        IN  /\ Len(ns.nullspace) = (columns - Rank(m, columns)) * columns
            /\ \A k \in 0 .. ((Len(ns.nullspace) \div columns) - 1) :
                   InKernel(m, columns, Chunk(ns.nullspace, k, columns))

\* a call that returned a basis vector with a fractional entry for a
\* matrix of rank 2 with three columns whose first row needed a swap
C2_Witness ==
    /\ ns.pc = "done"
    /\ ns_input.columns = 3
    /\ Rank(ns_input.matrix, 3) = 2
    /\ ns_input.matrix[0] = Zero
    /\ Len(ns.nullspace) = 3
    /\ \E j \in 1 .. 3 : ns.nullspace[j][2] # 1

(***************************************************************************)
(* Voltage, src/model/machine.rs.  A tier is its index 0..14 in the enum.  *)
(* An eu_per_tick magnitude is the set of its one-bits, so that the whole  *)
(* u64 / i64 range is covered.                                             *)
(***************************************************************************)
NumVoltages == 15
U64Bits == 64
Maximum == NumVoltages - 1

Max(S) == CHOOSE x \in S : \A y \in S : y <= x

\* the one-bits of a natural number below 2^31
RECURSIVE BitsFrom(_, _)
BitsFrom(n, i) ==
    IF n = 0 THEN {}
    ELSE (IF n % 2 = 1 THEN {i} ELSE {}) \cup BitsFrom(n \div 2, i + 1)
Bits(n) == BitsFrom(n, 0)

\* a <= b for two magnitudes given by their one-bits
BitsLeq(a, b) ==
    \/ a = b
    \/ LET d == (a \ b) \cup (b \ a) IN Max(d) \in b

ilog2(bits) == Max(bits)
saturating_sub(a, b) == IF a > b THEN a - b ELSE 0
div_ceil(a, b) == (a + b - 1) \div b

\* line 226, #[derive(Enum)]: from_usize aborts for an index that names no variant
from_usize(index) ==
    IF index < NumVoltages THEN [panic |-> FALSE, tier |-> index]
    ELSE [panic |-> TRUE, tier |-> index]

\* the tier without the offset of 3 bits
from_eu_per_tick_NoOffset(bits) ==
    from_usize(div_ceil(ilog2(bits), 2))

\* lines 302-309
from_eu_per_tick(bits) ==
    from_usize(div_ceil(saturating_sub(ilog2(bits), 3), 2))

\* lines 311-313: unsigned_abs() keeps the magnitude
from_signed_eu_per_tick(neg, bits) == from_eu_per_tick(bits)

\* lines 315-327: 2^(2t+3), as one-bits
max_eu_per_tick(tier) == {tier * 2 + 3}

\* recipe.rs lines 31-35: None for 0, else the tier of the magnitude
RecipeVoltage(neg, bits) ==
    IF bits = {} THEN [panic |-> FALSE, none |-> TRUE, tier |-> 0]
    ELSE LET v == from_signed_eu_per_tick(neg, bits)
         IN  [panic |-> v.panic, none |-> FALSE, tier |-> v.tier]

(***************************************************************************)
(* SpecVoltage: one call of a Voltage constructor on a bounded input.      *)
(***************************************************************************)
RECURSIVE BitSets(_)
BitSets(k) ==
    IF k = 0 THEN {{}}
    ELSE {b \cup {i} : b \in BitSets(k - 1), i \in 0 .. (U64Bits - 1)}

\* magnitudes of an i64: below 2^63, or exactly 2^63 for i64::MIN
InI64(neg, bits) == (U64Bits - 1) \notin bits \/ (neg /\ bits = {U64Bits - 1})

InitVoltage ==
    /\ volt \in [pc : {"call"}, neg : BOOLEAN, mag : BitSets(MaxBitsSet) \cup {{}}]
    /\ setups = <<>> /\ explicit_io = {} /\ cache = EmptyCache /\ panicked = FALSE /\ edits = 0
    /\ ns = NsIdle /\ ns_input = NsInputIdle /\ mach = MachIdle
    /\ chain_machines = <<>> /\ thr = ThrIdle /\ table_rows = NoRows

VoltReturn(fn, r) ==
    IF r.panic THEN [pc |-> "panic", fn |-> fn, neg |-> volt.neg, mag |-> volt.mag]
    ELSE [pc |-> "done", fn |-> fn, neg |-> volt.neg, mag |-> volt.mag,
          none |-> r.none, tier |-> r.tier]

\* Voltage::from_eu_per_tick(NonZeroU64)
FromEuPerTick ==
    /\ volt.pc = "call"
    /\ ~volt.neg /\ volt.mag # {}
    /\ LET r == from_eu_per_tick(volt.mag)
       IN  volt' = VoltReturn("from_eu_per_tick",
                              [panic |-> r.panic, none |-> FALSE, tier |-> r.tier])
    /\ UNCHANGED <<chainVars, nsVars, mach, edits, throttleVars, table_rows>>

\* Voltage::from_signed_eu_per_tick(NonZeroI64)
FromSignedEuPerTick ==
    /\ volt.pc = "call"
    /\ volt.mag # {} /\ InI64(volt.neg, volt.mag)
    /\ LET r == from_signed_eu_per_tick(volt.neg, volt.mag)
       IN  volt' = VoltReturn("from_signed_eu_per_tick",
                              [panic |-> r.panic, none |-> FALSE, tier |-> r.tier])
    /\ UNCHANGED <<chainVars, nsVars, mach, edits, throttleVars, table_rows>>

\* Recipe::voltage() of a recipe with this eu_per_tick: i64
RecipeVoltageCall ==
    /\ volt.pc = "call"
    /\ InI64(volt.neg, volt.mag) /\ (volt.mag = {} => ~volt.neg)
    /\ volt' = VoltReturn("voltage", RecipeVoltage(volt.neg, volt.mag))
    /\ UNCHANGED <<chainVars, nsVars, mach, edits, throttleVars, table_rows>>

NextVoltage == FromEuPerTick \/ FromSignedEuPerTick \/ RecipeVoltageCall

SpecVoltage == InitVoltage /\ [][NextVoltage]_vars

\* C9: within the range of the top tier, from_eu_per_tick returns the
\* smallest tier whose maximum draw is at least the given power.
C9_SmallestTier ==
    (volt.pc # "call" /\ volt.fn = "from_eu_per_tick"
        /\ BitsLeq(volt.mag, max_eu_per_tick(Maximum))) =>
        /\ volt.pc = "done"
        /\ BitsLeq(volt.mag, max_eu_per_tick(volt.tier))
        /\ (volt.tier > 0 => ~BitsLeq(volt.mag, max_eu_per_tick(volt.tier - 1)))

\* C10: a nonzero eu_per_tick above the top tier's maximum draw yields the
\* top tier from all three constructors, never an abort.
C10_ClampedToMaximum ==
    (volt.pc # "call" /\ ~BitsLeq(volt.mag, max_eu_per_tick(Maximum))) =>
        /\ volt.pc = "done"
        /\ ~volt.none
        /\ volt.tier = Maximum

(***************************************************************************)
(* Voltage overclocking and machine populations, src/model/machine.rs.     *)
(***************************************************************************)
RECURSIVE Pow2(_)
Pow2(k) == IF k = 0 THEN 1 ELSE 2 * Pow2(k - 1)

\* lines 348-350
overclocking_steps(self, recipe_voltage) == self - recipe_voltage

\* lines 341-343
eu_factor_log2(self, recipe_voltage) == 2 * overclocking_steps(self, recipe_voltage)

\* speed_factor with the shift done on an integer: a right shift of 1 gives 0
Voltage_speed_factor_IntegerShift(self, recipe_voltage) ==
    LET steps == self - recipe_voltage
    IN  IF steps >= 0 THEN <<Pow2(steps), 1>> ELSE Zero

\* lines 333-335: Rational::ONE << steps; a negative shift divides
Voltage_speed_factor(self, recipe_voltage) ==
    LET steps == overclocking_steps(self, recipe_voltage)
    IN  IF steps >= 0 THEN <<Pow2(steps), 1>> ELSE <<1, Pow2(-steps)>>

\* Integer << i8: a negative shift is a right shift, rounding down
ShiftLeft(x, k) == IF k >= 0 THEN x * Pow2(k) ELSE x \div Pow2(-k)

\* Machines, lines 23-28; a ClockedMachines map is the set of its entries
Eco(count) == [kind |-> "Eco", count |-> count, clocked |-> {}]
Power(clocked) == [kind |-> "Power", count |-> 0, clocked |-> clocked]
ClockedEntry(tier, underclocking, count) ==
    [tier |-> tier, underclocking |-> underclocking, count |-> count]

RECURSIVE ClockedMachines_speed_factor(_, _)
\* lines 103-111
ClockedMachines_speed_factor(clocked, recipe_voltage) ==
    IF clocked = {} THEN Zero
    ELSE LET e == CHOOSE x \in clocked : TRUE
         IN  RatAdd(RatMul(Voltage_speed_factor(e.underclocking, recipe_voltage),
                           RatFromInt(e.count)),
                    ClockedMachines_speed_factor(clocked \ {e}, recipe_voltage))

\* an i64 as its sign and the one-bits of its magnitude, and back; the value
\* is only taken of magnitudes below 2^31
I64(n) == [neg |-> n < 0, mag |-> Bits(Abs(n))]

RECURSIVE BitsValue(_)
BitsValue(bits) ==
    IF bits = {} THEN 0
    ELSE LET i == Max(bits) IN Pow2(i) + BitsValue(bits \ {i})

I64Value(x) == IF x.neg THEN -BitsValue(x.mag) ELSE BitsValue(x.mag)

\* lines 118-119: the energy of one machine of an entry
ClockedEu(e, recipe_eu_per_tick, recipe_voltage) ==
    ShiftLeft(recipe_eu_per_tick, eu_factor_log2(e.underclocking, recipe_voltage))

RECURSIVE ClockedMachines_eu_sum(_, _, _)
ClockedMachines_eu_sum(clocked, recipe_eu_per_tick, recipe_voltage) ==
    IF clocked = {} THEN 0
    ELSE LET e == CHOOSE x \in clocked : TRUE
         IN  ClockedEu(e, recipe_eu_per_tick, recipe_voltage) * e.count
             + ClockedMachines_eu_sum(clocked \ {e}, recipe_eu_per_tick, recipe_voltage)

\* lines 113-127: the sum, and whether the call aborts (the tier of line 114
\* out of range, or the assertion of line 120); recipe_eu_per_tick is an I64
ClockedMachines_eu_per_tick(clocked, recipe_eu_per_tick) ==
    LET v == from_signed_eu_per_tick(recipe_eu_per_tick.neg, recipe_eu_per_tick.mag)
    IN  IF v.panic THEN [panic |-> TRUE, value |-> 0]
        ELSE LET eu == I64Value(recipe_eu_per_tick)
             IN  [panic |-> \E e \in clocked : ClockedEu(e, eu, v.tier) = 0,
                  value |-> ClockedMachines_eu_sum(clocked, eu, v.tier)]

\* lines 32-44; recipe_voltage is [none, tier]
Machines_speed_factor(machines, recipe_voltage) ==
    IF recipe_voltage.none
    THEN IF machines.kind = "Eco"
         THEN [ok |-> TRUE, value |-> RatFromInt(machines.count), error |-> ""]
         ELSE [ok |-> FALSE, value |-> Zero, error |-> "RequiresEco"]
    ELSE IF machines.kind = "Power"
         THEN [ok |-> TRUE,
               value |-> ClockedMachines_speed_factor(machines.clocked, recipe_voltage.tier),
               error |-> ""]
         ELSE [ok |-> FALSE, value |-> Zero, error |-> "RequiresPower"]

\* lines 46-55; recipe_eu_per_tick is an I64, try_into() fails for zero
Machines_eu_per_tick(machines, recipe_eu_per_tick) ==
    IF recipe_eu_per_tick.mag = {}
    THEN IF machines.kind = "Eco"
         THEN [ok |-> TRUE, panic |-> FALSE, value |-> 0, error |-> ""]
         ELSE [ok |-> FALSE, panic |-> FALSE, value |-> 0, error |-> "RequiresEco"]
    ELSE IF machines.kind = "Power"
         THEN LET r == ClockedMachines_eu_per_tick(machines.clocked, recipe_eu_per_tick)
              IN  [ok |-> TRUE, panic |-> r.panic, value |-> r.value, error |-> ""]
         ELSE [ok |-> FALSE, panic |-> FALSE, value |-> 0, error |-> "RequiresPower"]

(***************************************************************************)
(* Recipe, src/model/recipe.rs.  consumed and produced are sequences of    *)
(* [product, count]; catalysts a sequence of products.                     *)
(***************************************************************************)
TicksPerSecond == 20

ProductCount(product, count) == [product |-> product, count |-> count]

Range(seq) == {seq[i] : i \in 1 .. Len(seq)}

\* lines 37-49
Recipe_products(recipe) ==
    {pc.product : pc \in Range(recipe.consumed)} \cup {pc.product : pc \in Range(recipe.produced)}

RECURSIVE SumCounts(_, _)
SumCounts(list, product) ==
    IF list = <<>> THEN 0
    ELSE (IF list[1].product = product THEN list[1].count ELSE 0)
         + SumCounts(Tail(list), product)

\* lines 51-68
product_counts(recipe) ==
    [product \in Recipe_products(recipe) |->
        SumCounts(recipe.produced, product) - SumCounts(recipe.consumed, product)]

\* lines 89-91
seconds(recipe) == Rat(recipe.ticks, TicksPerSecond)

\* lines 70-75
Recipe_products_per_sec(recipe) ==
    [product \in Recipe_products(recipe) |->
        RatDiv(RatFromInt(product_counts(recipe)[product]), seconds(recipe))]

\* lines 77-81
produces(recipe, product) == \E pc \in Range(recipe.produced) : pc.product = product

\* lines 83-87
consumes(recipe, product) == \E pc \in Range(recipe.consumed) : pc.product = product

\* lines 31-35
voltage(recipe) == RecipeVoltage(I64(recipe.eu_per_tick).neg, I64(recipe.eu_per_tick).mag)

(***************************************************************************)
(* Setup and ProcessingChain, src/model/processing_chain.rs.               *)
(***************************************************************************)
\* lines 188-190
Setup_speed_factor(setup) == Machines_speed_factor(setup.machines, voltage(setup.recipe))

\* products_per_sec_filter_ok without the filter: under a power mismatch the
\* flows of the recipe pass at their unscaled rates
products_per_sec_unfiltered(setup) ==
    LET speed_factor == Machines_speed_factor(setup.machines, voltage(setup.recipe))
        amounts == Recipe_products_per_sec(setup.recipe)
    IN  [product \in DOMAIN amounts |->
            IF speed_factor.ok THEN RatMul(amounts[product], speed_factor.value)
            ELSE amounts[product]]

\* lines 192-212: the flows of a setup; none at all under a power mismatch
products_per_sec_filter_ok(setup) ==
    LET speed_factor == Setup_speed_factor(setup)
        amounts == Recipe_products_per_sec(setup.recipe)
    IN  IF speed_factor.ok
        THEN [product \in DOMAIN amounts |-> RatMul(amounts[product], speed_factor.value)]
        ELSE [product \in {} |-> Zero]

\* line 200: the speed factor is computed when the recipe has a first flow;
\* the call aborts when the tier index of the recipe is out of range
SetupPanics(setup) == Recipe_products(setup.recipe) # {} /\ voltage(setup.recipe).panic

\* lines 74-79
products(chain_setups) ==
    UNION {Recipe_products(chain_setups[i].recipe) : i \in 1 .. Len(chain_setups)}

\* the row filter without the test for explicit_io
BalancedProductsWithIo(chain_setups, io) ==
    {product \in products(chain_setups) :
        /\ \E i \in 1 .. Len(chain_setups) : consumes(chain_setups[i].recipe, product)
        /\ \E i \in 1 .. Len(chain_setups) : produces(chain_setups[i].recipe, product)}

\* lines 258-268: the goods that get a row of the balance matrix
BalancedProducts(chain_setups, io) ==
    {product \in products(chain_setups) :
        /\ product \notin io
        /\ \E i \in 1 .. Len(chain_setups) : consumes(chain_setups[i].recipe, product)
        /\ \E i \in 1 .. Len(chain_setups) : produces(chain_setups[i].recipe, product)}

\* lines 245-277: the balance matrix, row-major, one row per balanced good in
\* the order of the goods, one column per setup; a setup without a flow of
\* the good (none at all under a power mismatch) has the default entry 0
BalanceMatrix(chain_setups, io) ==
    LET processing_chains == Len(chain_setups)
        setup_products_per_sec ==
            [i \in 1 .. processing_chains |-> products_per_sec_filter_ok(chain_setups[i])]
        rows == SortedSeq(BalancedProducts(chain_setups, io))
    IN  [k \in 0 .. (Len(rows) * processing_chains - 1) |->
            LET product == rows[(k \div processing_chains) + 1]
                per_sec == setup_products_per_sec[(k % processing_chains) + 1]
            IN  IF product \in DOMAIN per_sec THEN per_sec[product] ELSE Zero]

\* lines 242-284
Speeds_new(chain_setups, io) ==
    LET processing_chains == Len(chain_setups)
        r == nullspace(BalanceMatrix(chain_setups, io), processing_chains)
    IN  [panic |-> r.panic \/ \E i \in 1 .. processing_chains : SetupPanics(chain_setups[i]),
         weighted_setups |-> r.unknowns,
         speeds |-> r.nullspace]

\* lines 298-301: iter_ones(), the indices of the free setups in order
IterOnes(weighted_setups) ==
    SortedSeq({i \in 1 .. Len(weighted_setups) : weighted_setups[i]})

RECURSIVE FoldBasis(_, _, _, _, _)
\* lines 303-311: the fold over the pairs (basis vector, its free setup)
FoldBasis(acc, speeds, ones, chain_setups, k) ==
    LET n == Len(chain_setups)
    IN  IF k > Len(ones) \/ k * n > Len(speeds) THEN acc
        ELSE FoldBasis(
                [i \in 1 .. n |->
                    RatMul(acc[i],
                           RatMul(speeds[(k - 1) * n + i],
                                  RatFromInt(chain_setups[ones[k]].weight)))],
                speeds, ones, chain_setups, k + 1)

RatMax(v) == CHOOSE x \in Range(v) : \A y \in Range(v) : RatLeq(y, x)

\* Normalize left out: the accumulated vector is returned as it is
NormalizeSkipped(v) == v

\* lines 313-319
Normalize(v) ==
    IF Len(v) = 0 THEN v
    ELSE LET max_speed == RatMax(v)
         IN  IF max_speed # Zero THEN [i \in 1 .. Len(v) |-> RatDiv(v[i], max_speed)]
             ELSE v

\* lines 293-322; chunks_exact(0) aborts
WeightedSpeeds_new(speeds, chain_setups) ==
    IF Len(chain_setups) = 0 THEN [panic |-> TRUE, speeds |-> <<>>]
    ELSE [panic |-> FALSE,
          speeds |-> Normalize(FoldBasis([i \in 1 .. Len(chain_setups) |-> One],
                                         speeds.speeds, IterOnes(speeds.weighted_setups),
                                         chain_setups, 1))]

RECURSIVE SumRat(_, _)
SumRat(f, S) ==
    IF S = {} THEN Zero
    ELSE LET x == CHOOSE y \in S : TRUE IN RatAdd(f[x], SumRat(f, S \ {x}))

\* lines 115-135; setup_speed is the vector of speeds, one per setup
products_with_speed_callback(chain_setups, setup_speed) ==
    LET n == Len(chain_setups)
        flows == [i \in 1 .. n |-> products_per_sec_filter_ok(chain_setups[i])]
        eu == [i \in 1 .. n |->
                 LET r == Machines_eu_per_tick(chain_setups[i].machines,
                                               I64(chain_setups[i].recipe.eu_per_tick))
                 IN  IF r.ok THEN RatMul(RatFromInt(r.value), setup_speed[i]) ELSE Zero]
    IN  [panic |-> \E i \in 1 .. n :
                      \/ SetupPanics(chain_setups[i])
                      \/ Machines_eu_per_tick(chain_setups[i].machines,
                                              I64(chain_setups[i].recipe.eu_per_tick)).panic,
         eu_per_tick |-> SumRat(eu, 1 .. n),
         products_per_sec |->
            [product \in UNION {DOMAIN flows[i] : i \in 1 .. n} |->
                SumRat([i \in 1 .. n |->
                           IF product \in DOMAIN flows[i]
                           THEN RatMul(flows[i][product], setup_speed[i])
                           ELSE Zero],
                       1 .. n)]]

\* lines 82-85
products_with_max_speeds(chain_setups) ==
    products_with_speed_callback(chain_setups, [i \in 1 .. Len(chain_setups) |-> One])

\* the aggregate that does not look at the speeds it is given
products_with_speeds_Unscaled(chain_setups, weighted_speeds) ==
    products_with_max_speeds(chain_setups)

\* lines 88-90
products_with_speeds(chain_setups, weighted_speeds) ==
    products_with_speed_callback(chain_setups, weighted_speeds)

(***************************************************************************)
(* The operations of a ProcessingChain as actions.                         *)
(***************************************************************************)
Some(v) == <<v>>

NewRecipe(ticks, eu_per_tick, consumed, produced) ==
    [machine |-> "machine", ticks |-> ticks, eu_per_tick |-> eu_per_tick,
     catalysts |-> <<>>, consumed |-> consumed, produced |-> produced]

NewSetup(recipe, machines, weight) ==
    [recipe |-> recipe, machines |-> machines, weight |-> weight]

Products == 1 .. NumProducts

\* the recipes an editing session puts into a chain: producers, consumers
\* and one-to-one converters, all powerless and one second long
EditRecipes ==
    {NewRecipe(TicksPerSecond, 0, <<>>, <<ProductCount(g, c)>>) :
        g \in Products, c \in 1 .. MaxCount}
    \cup {NewRecipe(TicksPerSecond, 0, <<ProductCount(g, c)>>, <<>>) :
        g \in Products, c \in 1 .. MaxCount}
    \cup {NewRecipe(TicksPerSecond, 0, <<ProductCount(g, 1)>>, <<ProductCount(h, 1)>>) :
        g \in Products, h \in Products}

InsertAt(seq, index, x) ==
    SubSeq(seq, 1, index - 1) \o <<x>> \o SubSeq(seq, index, Len(seq))

\* ProcessingChain::default(), lines 21-39
Init ==
    /\ setups = <<>>
    /\ explicit_io = {}
    /\ cache = EmptyCache
    /\ panicked = FALSE /\ edits = 0
    /\ ns = NsIdle /\ ns_input = NsInputIdle /\ volt = VoltIdle /\ mach = MachIdle
    /\ chain_machines = <<>> /\ thr = ThrIdle /\ table_rows = NoRows

\* setups_mut() without the clearing of the cells
SetupsMutKeepsCache(new_setups) ==
    /\ setups' = new_setups
    /\ UNCHANGED <<cache, explicit_io, panicked>>

\* lines 46-49: setups_mut() clears both cells and hands out the setups;
\* new_setups is what the caller leaves in the handle
SetupsMut(new_setups) ==
    /\ cache' = EmptyCache
    /\ setups' = new_setups
    /\ UNCHANGED <<explicit_io, panicked>>

\* lines 51-53: machine_mut(index) hands out the machine name of one recipe
MachineMut(index, name) ==
    /\ setups' = [setups EXCEPT ![index].recipe.machine = name]
    /\ UNCHANGED <<cache, explicit_io, panicked>>

\* lines 55-57: catalysts_mut(index) hands out the catalysts of one recipe
CatalystsMut(index, new_catalysts) ==
    /\ setups' = [setups EXCEPT ![index].recipe.catalysts = new_catalysts]
    /\ UNCHANGED <<cache, explicit_io, panicked>>

\* set_weight that leaves the WeightedSpeeds cell as it is
SetWeightKeepsCache(index, weight) ==
    /\ setups' = [setups EXCEPT ![index].weight = weight]
    /\ UNCHANGED <<cache, explicit_io, panicked>>

\* lines 60-63
SetWeight(index, weight) ==
    /\ cache' = [cache EXCEPT !.weighted_speeds = <<>>]
    /\ setups' = [setups EXCEPT ![index].weight = weight]
    /\ UNCHANGED <<explicit_io, panicked>>

\* explicit_io_mut() without the clearing of the cells
ExplicitIoMutKeepsCache(new_explicit_io) ==
    /\ explicit_io' = new_explicit_io
    /\ UNCHANGED <<cache, setups, panicked>>

\* lines 69-72: explicit_io_mut() clears both cells and hands out the set
ExplicitIoMut(new_explicit_io) ==
    /\ cache' = EmptyCache
    /\ explicit_io' = new_explicit_io
    /\ UNCHANGED <<setups, panicked>>

\* recipe.rs lines 93-104: every consumed, produced and catalyst entry that
\* is old becomes new, the counts stay
Recipe_replace_product(recipe, old, new) ==
    LET swap(list) ==
            [k \in 1 .. Len(list) |->
                IF list[k].product = old
                THEN ProductCount(new, list[k].count) ELSE list[k]]
    IN  [recipe EXCEPT
            !.consumed = swap(@),
            !.produced = swap(@),
            !.catalysts = [k \in 1 .. Len(@) |-> IF @[k] = old THEN new ELSE @[k]]]

\* lines 102-110: through setups_mut() and explicit_io_mut(), which clear
ReplaceProduct(old, new) ==
    /\ cache' = EmptyCache
    /\ setups' = [k \in 1 .. Len(setups) |->
                     [setups[k] EXCEPT !.recipe = Recipe_replace_product(@, old, new)]]
    /\ explicit_io' = IF old \in explicit_io
                      THEN (explicit_io \ {old}) \cup {new}
                      ELSE explicit_io
    /\ UNCHANGED panicked

\* setups_mut() and the caller's insert of a setup with the default weight
SetupsMutInsert ==
    /\ ~panicked
    /\ Len(setups) < MaxSetups
    /\ \E index \in 1 .. (Len(setups) + 1), recipe \in EditRecipes :
          SetupsMut(InsertAt(setups, index, NewSetup(recipe, Eco(1), 1)))
    /\ UNCHANGED <<nsVars, volt, mach, edits, throttleVars, table_rows>>

\* setups_mut() and the caller's remove through the handle
SetupsMutRemove ==
    /\ ~panicked
    /\ \E index \in 1 .. Len(setups) : SetupsMut(RemoveAt(setups, index))
    /\ UNCHANGED <<nsVars, volt, mach, edits, throttleVars, table_rows>>

\* set_weight(index, weight)
set_weight ==
    /\ ~panicked
    /\ \E index \in 1 .. Len(setups), weight \in 0 .. MaxWeight : SetWeight(index, weight)
    /\ UNCHANGED <<nsVars, volt, mach, edits, throttleVars, table_rows>>

\* explicit_io_mut() and the caller's insert or remove
explicit_io_mut ==
    /\ ~panicked
    /\ \E product \in Products :
          ExplicitIoMut(IF product \in explicit_io
                        THEN explicit_io \ {product}
                        ELSE explicit_io \cup {product})
    /\ UNCHANGED <<nsVars, volt, mach, edits, throttleVars, table_rows>>

\* lines 92-94: get_or_init of the Speeds cell
speeds ==
    /\ ~panicked
    /\ IF cache.speeds # <<>>
       THEN UNCHANGED <<cache, panicked>>
       ELSE LET r == Speeds_new(setups, explicit_io)
            IN  IF r.panic
                THEN panicked' = TRUE /\ UNCHANGED cache
                ELSE /\ cache' = [cache EXCEPT !.speeds =
                            Some([weighted_setups |-> r.weighted_setups, speeds |-> r.speeds])]
                     /\ UNCHANGED panicked
    /\ UNCHANGED <<setups, explicit_io, nsVars, volt, mach, edits, throttleVars, table_rows>>

\* lines 96-100: get_or_init of the WeightedSpeeds cell, which fills the
\* Speeds cell first
weighted_speeds ==
    /\ ~panicked
    /\ IF cache.weighted_speeds # <<>>
       THEN UNCHANGED <<cache, panicked>>
       ELSE LET s == IF cache.speeds # <<>>
                     THEN [panic |-> FALSE,
                           weighted_setups |-> cache.speeds[1].weighted_setups,
                           speeds |-> cache.speeds[1].speeds]
                     ELSE Speeds_new(setups, explicit_io)
                w == WeightedSpeeds_new(s, setups)
            IN  IF s.panic \/ w.panic
                THEN panicked' = TRUE /\ UNCHANGED cache
                ELSE /\ cache' = [speeds |-> Some([weighted_setups |-> s.weighted_setups,
                                                   speeds |-> s.speeds]),
                                  weighted_speeds |-> Some(w.speeds)]
                     /\ UNCHANGED panicked
    /\ UNCHANGED <<setups, explicit_io, nsVars, volt, mach, edits, throttleVars, table_rows>>

Next ==
    \/ SetupsMutInsert
    \/ SetupsMutRemove
    \/ set_weight
    \/ explicit_io_mut
    \/ speeds
    \/ weighted_speeds

Spec == Init /\ [][Next]_vars

(***************************************************************************)
(* Claims about the equilibrium speeds of a chain.                         *)
(***************************************************************************)
HasWeightedSpeeds == cache.weighted_speeds # <<>>
CachedWeightedSpeeds == cache.weighted_speeds[1]

\* what weighted_speeds() returns on a chain with empty caches
FreshWeightedSpeeds(chain_setups, io) ==
    WeightedSpeeds_new(Speeds_new(chain_setups, io), chain_setups).speeds

OnlyProduces(setup, product) ==
    /\ setup.recipe.consumed = <<>>
    /\ Recipe_products(setup.recipe) = {product}

OnlyConsumes(setup, product) ==
    /\ setup.recipe.produced = <<>>
    /\ Recipe_products(setup.recipe) = {product}

\* the net rate of a good in an aggregate, zero when no setup contributes
NetRate(aggregate, product) ==
    IF product \in DOMAIN aggregate.products_per_sec
    THEN aggregate.products_per_sec[product]
    ELSE Zero

\* C1: at the speeds weighted_speeds() returned, every implicit good (made
\* and used inside the chain, not explicit I/O) has a net rate of zero.
C1_ImplicitGoodsBalanced ==
    HasWeightedSpeeds =>
        \A product \in BalancedProducts(setups, explicit_io) :
            NetRate(products_with_speeds(setups, CachedWeightedSpeeds), product) = Zero

\* C3: a chain of at least one setup, all weights nonzero, no implicit good:
\* weighted_speeds() is all ones.
C3_NoImplicitGoodsAllOnes ==
    (/\ HasWeightedSpeeds
     /\ Len(setups) >= 1
     /\ \A i \in 1 .. Len(setups) : setups[i].weight # 0
     /\ BalancedProducts(setups, explicit_io) = {}) =>
        CachedWeightedSpeeds = [i \in 1 .. Len(setups) |-> One]

\* C4: on the empty chain speeds() and weighted_speeds() do not abort.
C4_EmptyChainCompletes ==
    setups = <<>> => ~panicked

\* C5: the largest entry of a result with a nonzero entry is exactly 1.
C5_MaxIsOne ==
    (/\ HasWeightedSpeeds
     /\ \E i \in 1 .. Len(setups) : CachedWeightedSpeeds[i] # Zero) =>
        RatMax(CachedWeightedSpeeds) = One

\* C6: with the weight of exactly one setup i at 0, entry i is 0 and every
\* other entry is what it was with any nonzero weight for setup i.
C6_ZeroWeightDisablesOnlyItself ==
    HasWeightedSpeeds =>
        \A i \in 1 .. Len(setups) :
            (/\ setups[i].weight = 0
             /\ \A j \in 1 .. Len(setups) : j # i => setups[j].weight # 0) =>
                /\ CachedWeightedSpeeds[i] = Zero
                /\ \A w \in 1 .. MaxWeight : \A j \in 1 .. Len(setups) :
                      j # i =>
                        CachedWeightedSpeeds[j] =
                            FreshWeightedSpeeds([setups EXCEPT ![i].weight = w],
                                                explicit_io)[j]

\* the unthrottled rate at which a setup consumes or produces a good
RateOf(setup, product) ==
    LET flows == products_per_sec_filter_ok(setup)
    IN  IF product \in DOMAIN flows
        THEN <<Abs(flows[product][1]), flows[product][2]>>
        ELSE Zero

\* C7: one producer p of an implicit good and two consumers a, b of it:
\* a's part of the supply is (wA x rA) / (wA x rA + wB x rB), and b's likewise.
C7_WeightedShares ==
    HasWeightedSpeeds =>
        \A product \in BalancedProducts(setups, explicit_io) :
        \A p, a, b \in 1 .. Len(setups) :
            (/\ Len(setups) = 3
             /\ a # b
             /\ OnlyProduces(setups[p], product)
             /\ OnlyConsumes(setups[a], product)
             /\ OnlyConsumes(setups[b], product)) =>
                LET supply == RatMul(RateOf(setups[p], product), CachedWeightedSpeeds[p])
                    used == RatMul(RateOf(setups[a], product), CachedWeightedSpeeds[a])
                    eA == RatMul(RatFromInt(setups[a].weight), RateOf(setups[a], product))
                    eB == RatMul(RatFromInt(setups[b].weight), RateOf(setups[b], product))
                IN  RatMul(used, RatAdd(eA, eB)) = RatMul(supply, eA)

Tiers == 0 .. Maximum

(***************************************************************************)
(* Voltage acronyms and ClockedMachine keys, machine.rs lines 131-224 and  *)
(* 246-386.  A string is a sequence of one-character strings.              *)
(***************************************************************************)
\* Voltage::acronym, lines 246-280, by index of the variant
acronym(self) ==
    << <<"U", "L", "V">>, <<"L", "V">>, <<"M", "V">>, <<"H", "V">>,
       <<"E", "V">>, <<"I", "V">>, <<"L", "u", "V">>, <<"Z", "P", "M">>,
       <<"U", "V">>, <<"U", "H", "V">>, <<"U", "E", "V">>, <<"U", "I", "V">>,
       <<"U", "X", "V">>, <<"O", "p", "V">>, <<"M", "A", "X">> >>[self + 1]

\* Display for Voltage, lines 353-357
Voltage_fmt(self) == acronym(self)

VoltageFromStrError == [ok |-> FALSE]

\* FromStr for Voltage, lines 363-386: the first arm whose constant equals s
Voltage_from_str(s) ==
    IF \E v \in Tiers : acronym(v) = s
    THEN [ok |-> TRUE, value |-> CHOOSE v \in Tiers : acronym(v) = s]
    ELSE VoltageFromStrError

\* str::split_once('@'): the parts before and after the first '@'
split_once(s) ==
    IF \E i \in 1 .. Len(s) : s[i] = "@"
    THEN LET i == CHOOSE i \in 1 .. Len(s) :
                      s[i] = "@" /\ \A j \in 1 .. (i - 1) : s[j] # "@"
         IN  [some |-> TRUE, parts |-> <<SubSeq(s, 1, i - 1), SubSeq(s, i + 1, Len(s))>>]
    ELSE [some |-> FALSE]

\* struct ClockedMachine, lines 131-143
ClockedMachine(tier, underclocking) == [tier |-> tier, underclocking |-> underclocking]

\* ClockedMachine::new, lines 158-163
ClockedMachine_new(tier) == ClockedMachine(tier, tier)

\* ClockedMachine::with_underclocking, lines 165-171: the assert aborts
with_underclocking(tier, underclocking) ==
    IF underclocking <= tier
    THEN [panic |-> FALSE, value |-> ClockedMachine(tier, underclocking)]
    ELSE [panic |-> TRUE]

\* Serialize for ClockedMachine, lines 182-193
serialize(self) ==
    IF self.tier = self.underclocking
    THEN Voltage_fmt(self.tier)
    ELSE Voltage_fmt(self.tier) \o <<"@">> \o Voltage_fmt(self.underclocking)

DeserializeError == [ok |-> FALSE]

\* the same without the final comparison of the two tiers
deserialize_unchecked(clocked_machine) ==
    LET split == split_once(clocked_machine)
        tier_str == IF split.some THEN split.parts[1] ELSE clocked_machine
        clocking_str == IF split.some THEN split.parts[2] ELSE clocked_machine
        tier == Voltage_from_str(tier_str)
        clocking == Voltage_from_str(clocking_str)
    IN  IF ~tier.ok THEN DeserializeError
        ELSE IF ~clocking.ok THEN DeserializeError
        ELSE [ok |-> TRUE, value |-> ClockedMachine(tier.value, clocking.value)]

\* Deserialize for ClockedMachine, lines 195-224
deserialize(clocked_machine) ==
    LET split == split_once(clocked_machine)
        tier_str == IF split.some THEN split.parts[1] ELSE clocked_machine
        clocking_str == IF split.some THEN split.parts[2] ELSE clocked_machine
        tier == Voltage_from_str(tier_str)
        clocking == Voltage_from_str(clocking_str)
    IN  IF ~tier.ok THEN DeserializeError
        ELSE IF ~clocking.ok THEN DeserializeError
        ELSE IF clocking.value <= tier.value
             THEN [ok |-> TRUE, value |-> ClockedMachine(tier.value, clocking.value)]
             ELSE DeserializeError

(***************************************************************************)
(* The persisted form of a chain: serde of ProcessingChain, Setup and      *)
(* Machines.  An absent field is <<>>, a present one <<value>>.            *)
(***************************************************************************)
\* Serialize for Machines, machine.rs lines 21-28 (untagged): a number, or
\* the map of ClockedMachines (flattened) from key strings to counts
Machines_serialize(machines) ==
    IF machines.kind = "Eco"
    THEN [number |-> <<machines.count>>, map |-> {}]
    ELSE [number |-> <<>>,
          map |-> {[key |-> serialize(ClockedMachine(e.tier, e.underclocking)),
                    count |-> e.count] : e \in machines.clocked}]

\* Deserialize for Machines: the first variant that fits
Machines_deserialize(doc) ==
    IF doc.number # <<>> THEN [ok |-> TRUE, value |-> Eco(doc.number[1])]
    ELSE IF \E entry \in doc.map : ~deserialize(entry.key).ok
         THEN [ok |-> FALSE]
         ELSE [ok |-> TRUE,
               value |-> Power({ClockedEntry(deserialize(entry.key).value.tier,
                                             deserialize(entry.key).value.underclocking,
                                             entry.count) : entry \in doc.map})]

\* Serialize for Setup, processing_chain.rs lines 145-184
Setup_serialize(setup) ==
    [recipe |-> setup.recipe, machines |-> Machines_serialize(setup.machines),
     weight |-> <<setup.weight>>]

\* Deserialize for Setup: an absent weight is Weight::default(), lines 219-223
Setup_deserialize(doc) ==
    LET machines == Machines_deserialize(doc.machines)
    IN  IF ~machines.ok THEN [ok |-> FALSE]
        ELSE [ok |-> TRUE,
              value |-> NewSetup(doc.recipe, machines.value,
                                 IF doc.weight = <<>> THEN 1 ELSE doc.weight[1])]

\* Serialize for ProcessingChain, lines 21-39: empty collections are left
\* out, the cache is skipped
Chain_serialize(chain_setups, io) ==
    [setups |-> IF chain_setups = <<>> THEN <<>>
                ELSE <<[k \in 1 .. Len(chain_setups) |-> Setup_serialize(chain_setups[k])]>>,
     explicit_io |-> IF io = {} THEN <<>> ELSE <<io>>]

\* Deserialize for ProcessingChain: absent collections are empty, the cache
\* is Cache::default()
Chain_deserialize(doc) ==
    LET list == IF doc.setups = <<>> THEN <<>> ELSE doc.setups[1]
    IN  IF \E k \in 1 .. Len(list) : ~Setup_deserialize(list[k]).ok
        THEN [ok |-> FALSE]
        ELSE [ok |-> TRUE,
              setups |-> [k \in 1 .. Len(list) |-> Setup_deserialize(list[k]).value],
              explicit_io |-> IF doc.explicit_io = <<>> THEN {} ELSE doc.explicit_io[1],
              cache |-> EmptyCache]

\* the chain is written and read back (tabs.rs lines 59-60)
Reload ==
    /\ ~panicked
    /\ LET chain == Chain_deserialize(Chain_serialize(setups, explicit_io))
       IN  /\ chain.ok
           /\ setups' = chain.setups
           /\ explicit_io' = chain.explicit_io
           /\ cache' = chain.cache
    /\ UNCHANGED <<panicked, nsVars, volt, mach, edits, throttleVars, table_rows>>

(***************************************************************************)
(* SpecLoaded: a chain read from its serialized form (caches empty, serde  *)
(* skips them) and then queried.  The chains are the two-setup scenario:   *)
(* one setup only produces a good, the other only consumes it.             *)
(***************************************************************************)
LowVoltage == 1
MediumVoltage == 2

\* (eu_per_tick, machines), 30 eu per tick being a Low Voltage recipe:
\* powerless populations, powered ones clocked at,
\* above and below the tier of the recipe, a powerless population on a
\* recipe that needs power, and a powered one on a recipe that needs none
MachineConfigs ==
    {<<0, Eco(n)>> : n \in 1 .. MaxMachines}
    \cup {<<30, Power({ClockedEntry(MediumVoltage, LowVoltage, 1)})>>,
          <<-30, Power({ClockedEntry(LowVoltage, LowVoltage - 1, 1),
                                 ClockedEntry(MediumVoltage, MediumVoltage, 1)})>>,
          <<30, Eco(1)>>,
          <<0, Power({ClockedEntry(LowVoltage, LowVoltage, 1)})>>}

TicksInputs == {TicksPerSecond \div 2, TicksPerSecond}

\* the setup that only produces good 1, and the one that only consumes it
ProducerSetup(t, cfg, c, w) ==
    NewSetup(NewRecipe(t, cfg[1], <<>>, <<ProductCount(1, c)>>), cfg[2], w)
ConsumerSetup(cfg, c, w) ==
    NewSetup(NewRecipe(TicksPerSecond, cfg[1], <<ProductCount(1, c)>>, <<>>), cfg[2], w)

\* Deserialize for ProcessingChain, lines 21-39: the cache is skipped
InitLoaded ==
    /\ \E producer_first \in BOOLEAN, t \in TicksInputs,
          cfgA \in MachineConfigs, cfgB \in MachineConfigs,
          cA \in 1 .. MaxCount, cB \in 1 .. MaxCount,
          wA \in 0 .. MaxWeight, wB \in 0 .. MaxWeight :
          LET a == ProducerSetup(t, cfgA, cA, wA)
              b == ConsumerSetup(cfgB, cB, wB)
          IN  setups = IF producer_first THEN <<a, b>> ELSE <<b, a>>
    /\ explicit_io = {}
    /\ cache = EmptyCache
    /\ panicked = FALSE /\ edits = 0
    /\ ns = NsIdle /\ ns_input = NsInputIdle /\ volt = VoltIdle /\ mach = MachIdle
    /\ chain_machines = <<>> /\ thr = ThrIdle /\ table_rows = NoRows

NextLoaded == speeds \/ weighted_speeds \/ Reload

SpecLoaded == InitLoaded /\ [][NextLoaded]_vars

\* setup a only produces the good at a positive rate, setup b only consumes
\* it at a positive rate, both with a nonzero weight, the good not explicit I/O
ScenarioA(a, b, product) ==
    /\ Len(setups) = 2
    /\ a # b
    /\ product \notin explicit_io
    /\ OnlyProduces(setups[a], product)
    /\ OnlyConsumes(setups[b], product)
    /\ Setup_speed_factor(setups[a]).ok
    /\ Setup_speed_factor(setups[b]).ok
    /\ RateOf(setups[a], product) # Zero
    /\ RateOf(setups[b], product) # Zero
    /\ setups[a].weight # 0
    /\ setups[b].weight # 0

\* C8: in the two-setup scenario, p x speed(A) = c x speed(B) and the larger
\* of the two speeds is 1; for p = 2, c = 3 the speeds are 1 and 2/3.
C8_ScenarioA ==
    HasWeightedSpeeds =>
        \A a, b \in 1 .. Len(setups), product \in Products :
            ScenarioA(a, b, product) =>
                LET p == RateOf(setups[a], product)
                    c == RateOf(setups[b], product)
                    sA == CachedWeightedSpeeds[a]
                    sB == CachedWeightedSpeeds[b]
                IN  /\ RatMul(p, sA) = RatMul(c, sB)
                    /\ (IF RatLeq(sA, sB) THEN sB ELSE sA) = One
                    /\ ((p = <<2, 1>> /\ c = <<3, 1>>) => (sA = One /\ sB = <<2, 3>>))

\* the scenario with p = 2 and c = 3, the consumer listed first, solved
C8_Witness ==
    /\ HasWeightedSpeeds
    /\ ScenarioA(2, 1, 1)
    /\ RateOf(setups[2], 1) = <<2, 1>>
    /\ RateOf(setups[1], 1) = <<3, 1>>
    /\ CachedWeightedSpeeds = <<<<2, 3>>, One>>

(***************************************************************************)
(* SpecClock: one call of Voltage::overclocking_steps, eu_factor_log2 or   *)
(* speed_factor on a pair of tiers.                                        *)
(***************************************************************************)
I8Bits == 8
InI8(x) == -Pow2(I8Bits - 1) <= x /\ x <= Pow2(I8Bits - 1) - 1

InitClock ==
    /\ mach \in [pc : {"call"}, self : Tiers, recipe_voltage : Tiers]
    /\ setups = <<>> /\ explicit_io = {} /\ cache = EmptyCache /\ panicked = FALSE /\ edits = 0
    /\ ns = NsIdle /\ ns_input = NsInputIdle /\ volt = VoltIdle
    /\ chain_machines = <<>> /\ thr = ThrIdle /\ table_rows = NoRows

ClockReturn(fn, value) ==
    [pc |-> "done", fn |-> fn, self |-> mach.self,
     recipe_voltage |-> mach.recipe_voltage, value |-> value]

\* Voltage::overclocking_steps, lines 348-350
OverclockingStepsCall ==
    /\ mach.pc = "call"
    /\ mach' = ClockReturn("overclocking_steps",
                           overclocking_steps(mach.self, mach.recipe_voltage))
    /\ UNCHANGED <<chainVars, nsVars, volt, edits, throttleVars, table_rows>>

\* Voltage::eu_factor_log2, lines 341-343
EuFactorLog2Call ==
    /\ mach.pc = "call"
    /\ mach' = ClockReturn("eu_factor_log2",
                           eu_factor_log2(mach.self, mach.recipe_voltage))
    /\ UNCHANGED <<chainVars, nsVars, volt, edits, throttleVars, table_rows>>

\* Voltage::speed_factor, lines 333-335
SpeedFactorCall ==
    /\ mach.pc = "call"
    /\ mach' = ClockReturn("speed_factor",
                           Voltage_speed_factor(mach.self, mach.recipe_voltage))
    /\ UNCHANGED <<chainVars, nsVars, volt, edits, throttleVars, table_rows>>

NextClock == OverclockingStepsCall \/ EuFactorLog2Call \/ SpeedFactorCall

SpecClock == InitClock /\ [][NextClock]_vars

\* C11: for all 15 x 15 pairs of tiers a, b: a.speed_factor(b) is exactly
\* 2^(a - b), that is speed_factor x 2^b = 2^a, below 1 when a < b and 1 when
\* a = b; a.eu_factor_log2(b) is 2 x (a - b) and fits an i8, as do the steps.
C11_OverclockPowers ==
    mach.pc = "done" =>
        LET a == mach.self
            b == mach.recipe_voltage
        IN  /\ mach.fn = "speed_factor" =>
                /\ RatMul(mach.value, RatFromInt(Pow2(b))) = RatFromInt(Pow2(a))
                /\ (a < b => (RatLeq(mach.value, One) /\ mach.value # One))
                /\ (a = b => mach.value = One)
            /\ mach.fn = "eu_factor_log2" =>
                (mach.value = 2 * (a - b) /\ InI8(mach.value) /\ InI8(a - b))
            /\ mach.fn = "overclocking_steps" =>
                (mach.value = a - b /\ InI8(mach.value))

\* the lowest tier on a recipe of the highest tier: 14 steps of underclocking
C11_Witness ==
    /\ mach.pc = "done" /\ mach.fn = "speed_factor"
    /\ mach.self = 0 /\ mach.recipe_voltage = Maximum
    /\ mach.value = <<1, Pow2(Maximum)>>

(***************************************************************************)
(* SpecMachines: one call of Setup::speed_factor or Machines::eu_per_tick  *)
(* on a setup given by the power of its recipe and its machines.           *)
(***************************************************************************)
\* recipe powers: 0, the powers of two up to 2^MaxEuBit and their successors,
\* of both signs, and 2^32, the first magnitude past the tiers' 32 bits
EuInputs ==
    {[neg |-> FALSE, mag |-> {}]}
    \cup [neg : BOOLEAN, mag : {{k} : k \in 0 .. MaxEuBit} \cup {{0, k} : k \in 0 .. MaxEuBit}]
    \cup [neg : BOOLEAN, mag : {{U64Bits \div 2}}]

\* ClockedMachine values: underclocking <= tier
ClockedKeys ==
    {k \in [tier : 0 .. MaxClockTier, underclocking : 0 .. MaxClockTier] :
        k.underclocking <= k.tier}

\* ClockedMachines maps of at most two keys, each with a nonzero count
ClockedMaps ==
    {{}}
    \cup {{ClockedEntry(k.tier, k.underclocking, n)} : k \in ClockedKeys, n \in 1 .. MaxMachines}
    \cup UNION {{{ClockedEntry(k.tier, k.underclocking, n),
                   ClockedEntry(l.tier, l.underclocking, m)} :
                     l \in ClockedKeys \ {k},
                     n \in 1 .. MaxMachines, m \in 1 .. MaxMachines} :
                 k \in ClockedKeys}

MachinesInputs ==
    {Eco(n) : n \in 0 .. MaxMachines} \cup {Power(c) : c \in ClockedMaps}

InitMachines ==
    /\ \E eu \in EuInputs, machines \in MachinesInputs :
          mach = [pc |-> "call", eu_per_tick |-> eu, machines |-> machines]
    /\ setups = <<>> /\ explicit_io = {} /\ cache = EmptyCache /\ panicked = FALSE /\ edits = 0
    /\ ns = NsIdle /\ ns_input = NsInputIdle /\ volt = VoltIdle
    /\ chain_machines = <<>> /\ thr = ThrIdle /\ table_rows = NoRows

MachinesReturn(fn, panic, r) ==
    IF panic
    THEN [pc |-> "panic", fn |-> fn, eu_per_tick |-> mach.eu_per_tick,
          machines |-> mach.machines]
    ELSE [pc |-> "done", fn |-> fn, eu_per_tick |-> mach.eu_per_tick,
          machines |-> mach.machines, ok |-> r.ok, value |-> r.value, error |-> r.error]

\* Setup::speed_factor, processing_chain.rs lines 188-190: recipe.voltage()
\* is evaluated first, then Machines::speed_factor
SetupSpeedFactorCall ==
    /\ mach.pc = "call"
    /\ LET v == RecipeVoltage(mach.eu_per_tick.neg, mach.eu_per_tick.mag)
       IN  mach' = MachinesReturn("speed_factor", v.panic,
                                  Machines_speed_factor(mach.machines, v))
    /\ UNCHANGED <<chainVars, nsVars, volt, edits, throttleVars, table_rows>>

\* Machines::eu_per_tick, machine.rs lines 46-55
MachinesEuPerTickCall ==
    /\ mach.pc = "call"
    /\ LET r == Machines_eu_per_tick(mach.machines, mach.eu_per_tick)
       IN  mach' = MachinesReturn("eu_per_tick", r.panic, r)
    /\ UNCHANGED <<chainVars, nsVars, volt, edits, throttleVars, table_rows>>

NextMachines == SetupSpeedFactorCall \/ MachinesEuPerTickCall

SpecMachines == InitMachines /\ [][NextMachines]_vars

\* C12: Setup::speed_factor() is RequiresEco exactly for a powerless recipe
\* on Power machines, RequiresPower exactly for a powered recipe on Eco
\* machines, a value in every other case; Machines::eu_per_tick errs in the
\* same cases with the same error.
C12_MismatchExactly ==
    (mach.pc # "call" /\ mach.fn = "speed_factor") =>
        LET powered == mach.eu_per_tick.mag # {}
            eu == Machines_eu_per_tick(mach.machines, mach.eu_per_tick)
        IN  /\ mach.pc = "done"
            /\ (mach.error = "RequiresEco") <=> (~powered /\ mach.machines.kind = "Power")
            /\ (mach.error = "RequiresPower") <=> (powered /\ mach.machines.kind = "Eco")
            /\ mach.ok <=> (mach.error = "")
            /\ ~eu.panic
            /\ eu.ok = mach.ok
            /\ eu.error = mach.error

(***************************************************************************)
(* Claims about setups under a power mismatch, on loaded chains.           *)
(***************************************************************************)
Mismatched(setup) ==
    /\ ~SetupPanics(setup)
    /\ ~Setup_speed_factor(setup).ok

\* the aggregate with setup i and its speed taken out
AggregateWithout(chain_setups, setup_speed, i) ==
    products_with_speed_callback(RemoveAt(chain_setups, i), RemoveAt(setup_speed, i))

AllOnes(n) == [i \in 1 .. n |-> One]

\* C13: a setup i whose speed_factor() is a mismatch error has no flow and
\* no power in the aggregates at full and at weighted speeds, which equal the
\* aggregates of the chain without it; its column of the balance matrix is
\* zero; aggregation, speeds() and weighted_speeds() do not abort.
C13_MismatchContributesZero ==
    \A i \in 1 .. Len(setups) :
        Mismatched(setups[i]) =>
            LET n == Len(setups)
                matrix == BalanceMatrix(setups, explicit_io)
                full == products_with_max_speeds(setups)
            IN  /\ ~panicked
                /\ ~full.panic
                /\ full.eu_per_tick = AggregateWithout(setups, AllOnes(n), i).eu_per_tick
                /\ full.products_per_sec
                       = AggregateWithout(setups, AllOnes(n), i).products_per_sec
                /\ \A k \in DOMAIN matrix : k % n = i - 1 => matrix[k] = Zero
                /\ HasWeightedSpeeds =>
                       LET weighted == products_with_speeds(setups, CachedWeightedSpeeds)
                           without == AggregateWithout(setups, CachedWeightedSpeeds, i)
                       IN  /\ ~weighted.panic
                           /\ weighted.eu_per_tick = without.eu_per_tick
                           /\ weighted.products_per_sec = without.products_per_sec

\* a powerless producer on a powered recipe next to a working consumer, after
\* weighted_speeds(): the good flows at the consumer's rate alone
C13_Witness ==
    /\ HasWeightedSpeeds
    /\ Len(setups) = 2
    /\ Mismatched(setups[1])
    /\ Setup_speed_factor(setups[1]).error = "RequiresPower"
    /\ OnlyProduces(setups[1], 1)
    /\ Setup_speed_factor(setups[2]).ok
    /\ NetRate(products_with_max_speeds(setups), 1) = RatNeg(RateOf(setups[2], 1))
    /\ RateOf(setups[2], 1) # Zero

(***************************************************************************)
(* SpecEdit: an editing session on a loaded chain: at most MaxEdits calls  *)
(* of the mutators, with speeds() and weighted_speeds() in between.        *)
(***************************************************************************)
\* goods 1 and 2 are in the loaded chains, the others are new names
EditGoods == 1 .. (NumProducts + 2)

Producer(g) == NewSetup(NewRecipe(TicksPerSecond, 0, <<>>, <<ProductCount(g, 1)>>), Eco(1), 1)
Consumer(g) == NewSetup(NewRecipe(TicksPerSecond, 0, <<ProductCount(g, 1)>>, <<>>), Eco(1), 1)
Converter(g, h) ==
    NewSetup(NewRecipe(TicksPerSecond, 0, <<ProductCount(g, 1)>>, <<ProductCount(h, 2)>>),
             Eco(1), 1)

\* a good made and used; two unrelated goods; a line of two goods
EditChains ==
    {<<Producer(1), Consumer(1)>>,
     <<Producer(1), Consumer(2)>>,
     <<Producer(1), Converter(1, 2), Consumer(2)>>}

InitEdit ==
    /\ setups \in EditChains
    /\ explicit_io = {}
    /\ cache = EmptyCache
    /\ panicked = FALSE /\ edits = 0
    /\ ns = NsIdle /\ ns_input = NsInputIdle /\ volt = VoltIdle /\ mach = MachIdle
    /\ chain_machines = <<>> /\ thr = ThrIdle /\ table_rows = NoRows

\* one more mutating call of the session
EditCounted ==
    /\ ~panicked
    /\ edits < MaxEdits
    /\ edits' = edits + 1
    /\ UNCHANGED <<nsVars, volt, mach, throttleVars, table_rows>>

\* setups_mut(), then a remove or an insert through the handle
EditSetupsMut ==
    /\ EditCounted
    /\ \/ \E index \in 1 .. Len(setups) : SetupsMut(RemoveAt(setups, index))
       \/ /\ Len(setups) < MaxSetups
          /\ \E index \in 1 .. (Len(setups) + 1) :
                SetupsMut(InsertAt(setups, index, Consumer(1)))

\* machine_mut(index), then a new name written through the handle
EditMachineMut ==
    /\ EditCounted
    /\ \E index \in 1 .. Len(setups) : MachineMut(index, "other machine")

\* catalysts_mut(index), then a push through the handle
EditCatalystsMut ==
    /\ EditCounted
    /\ \E index \in 1 .. Len(setups) :
          CatalystsMut(index, Append(setups[index].recipe.catalysts, 1))

EditSetWeight ==
    /\ EditCounted
    /\ \E index \in 1 .. Len(setups), weight \in 0 .. MaxWeight : SetWeight(index, weight)

\* explicit_io_mut(), then an insert or a remove through the handle
EditExplicitIoMut ==
    /\ EditCounted
    /\ \E product \in products(setups) :
          ExplicitIoMut(IF product \in explicit_io
                        THEN explicit_io \ {product}
                        ELSE explicit_io \cup {product})

\* replace_product(old, new) on a good of the chain
EditReplaceProduct ==
    /\ EditCounted
    /\ \E old \in products(setups), new \in EditGoods : ReplaceProduct(old, new)

NextEdit ==
    \/ EditSetupsMut
    \/ EditMachineMut
    \/ EditCatalystsMut
    \/ EditSetWeight
    \/ EditExplicitIoMut
    \/ EditReplaceProduct
    \/ Reload
    \/ speeds
    \/ weighted_speeds

SpecEdit == InitEdit /\ [][NextEdit]_vars

(***************************************************************************)
(* Claims about the memo cells under edits.                                *)
(***************************************************************************)
\* the value of Speeds is the same under every other weight of every setup
SpeedsIgnoreWeights ==
    \A index \in 1 .. Len(setups), weight \in 0 .. MaxWeight :
        Speeds_new([setups EXCEPT ![index].weight = weight], explicit_io)
            = Speeds_new(setups, explicit_io)

\* what a step of a mutator does to the memo cells
InvalidationStep ==
    /\ (EditSetupsMut \/ EditExplicitIoMut \/ EditReplaceProduct) =>
          cache' = EmptyCache
    /\ EditSetWeight =>
          (cache'.weighted_speeds = <<>> /\ cache'.speeds = cache.speeds)

\* C14: a step of setups_mut(), explicit_io_mut() or replace_product() leaves
\* both memo cells empty; a step of set_weight() leaves the WeightedSpeeds
\* cell empty and the Speeds cell as it was; and the value of Speeds does not
\* depend on the weight of any setup.
C14_InvalidationRule ==
    [][InvalidationStep]_vars /\ []SpeedsIgnoreWeights

\* both cells filled by weighted_speeds(), then one weight-only edit: the
\* Speeds cell is still filled, the WeightedSpeeds cell is empty
C14_Witness ==
    /\ edits = 1
    /\ cache.speeds # <<>>
    /\ cache.weighted_speeds = <<>>
    /\ \E index \in 1 .. Len(setups) : setups[index].weight # 1
    /\ Len(setups) = 3

\* C15: whenever a memo cell is filled, its value is what a fresh computation
\* from the current setups and explicit_io returns, after any calls of the
\* mutators (machine_mut and catalysts_mut among them) and of the queries.
C15_NoStaleReads ==
    /\ cache.speeds # <<>> =>
          LET fresh == Speeds_new(setups, explicit_io)
          IN  /\ ~fresh.panic
              /\ cache.speeds[1] = [weighted_setups |-> fresh.weighted_setups,
                                    speeds |-> fresh.speeds]
    /\ cache.weighted_speeds # <<>> =>
          /\ cache.speeds # <<>>
          /\ cache.weighted_speeds[1] = FreshWeightedSpeeds(setups, explicit_io)

\* both cells filled, then machine_mut and catalysts_mut wrote through their
\* handles: the cells are still filled
C15_Witness ==
    /\ edits = 2
    /\ cache.speeds # <<>>
    /\ cache.weighted_speeds # <<>>
    /\ \E index \in 1 .. Len(setups) : setups[index].recipe.machine = "other machine"
    /\ \E index \in 1 .. Len(setups) : setups[index].recipe.catalysts # <<>>

(***************************************************************************)
(* replace_product as a rename.                                            *)
(***************************************************************************)
\* every good named in a list of the chain or in explicit_io
NamedGoods(chain_setups, io) ==
    io \cup UNION {Recipe_products(chain_setups[k].recipe)
                      \cup Range(chain_setups[k].recipe.catalysts) :
                   k \in 1 .. Len(chain_setups)}

\* the entry new_entry is old_entry with old renamed to new
RenamedEntry(old_entry, new_entry, old, new) ==
    IF old_entry.product = old
    THEN new_entry = ProductCount(new, old_entry.count)
    ELSE new_entry = old_entry

RenamedList(old_list, new_list, old, new) ==
    /\ Len(new_list) = Len(old_list)
    /\ \A j \in 1 .. Len(old_list) : RenamedEntry(old_list[j], new_list[j], old, new)

\* what replace_product(old, new) has to have done in a step
RenamePost(old, new) ==
    /\ old \notin NamedGoods(setups', explicit_io')
    /\ Len(setups') = Len(setups)
    /\ \A k \in 1 .. Len(setups) :
          /\ RenamedList(setups[k].recipe.consumed, setups'[k].recipe.consumed, old, new)
          /\ RenamedList(setups[k].recipe.produced, setups'[k].recipe.produced, old, new)
          /\ setups'[k].recipe.catalysts =
                [j \in 1 .. Len(setups[k].recipe.catalysts) |->
                    IF setups[k].recipe.catalysts[j] = old
                    THEN new ELSE setups[k].recipe.catalysts[j]]
          /\ setups'[k].machines = setups[k].machines
          /\ setups'[k].weight = setups[k].weight
          /\ setups'[k].recipe.ticks = setups[k].recipe.ticks
          /\ setups'[k].recipe.eu_per_tick = setups[k].recipe.eu_per_tick
          /\ setups'[k].recipe.machine = setups[k].recipe.machine
    /\ (new \in explicit_io') <=> (old \in explicit_io \/ new \in explicit_io)
    /\ \A g \in EditGoods \ {old, new} : (g \in explicit_io') <=> (g \in explicit_io)
    \* a pure rename of the flows and of the speeds
    /\ NetRate(products_with_max_speeds(setups'), new)
          = NetRate(products_with_max_speeds(setups), old)
    /\ \A g \in EditGoods \ {old, new} :
          NetRate(products_with_max_speeds(setups'), g)
              = NetRate(products_with_max_speeds(setups), g)
    /\ FreshWeightedSpeeds(setups', explicit_io') = FreshWeightedSpeeds(setups, explicit_io)

RenameStep ==
    \A old \in EditGoods, new \in EditGoods :
        (old # new /\ old \in products(setups) /\ ReplaceProduct(old, new))
            => RenamePost(old, new)

\* C16: a step of replace_product(old, new), old # new: old is named nowhere
\* afterwards, every entry that was old is new with its count, every other
\* entry is as before, new is explicit I/O iff old or new was; the rate of new
\* afterwards is the rate of old before, all other rates and all setup
\* speeds are as before, also when new already named a good of the chain.
C16_PureRename ==
    [][RenameStep]_vars

(***************************************************************************)
(* SpecKey: one call of a ClockedMachine constructor, of its serde, or of  *)
(* the Voltage string conversions, on a pair of tiers or on a string.      *)
(***************************************************************************)
\* the key forms "<tier>" and "<tier>@<underclocking>" over all tiers
TierKey(t) == acronym(t)
ClockedKey(t, u) == acronym(t) \o <<"@">> \o acronym(u)

\* strings that are no key: empty, a lone '@', a missing side, a third part,
\* wrong case, a space, a cut or a lengthened acronym
OtherStrings ==
    { <<>>, <<"@">>, <<"L", "V", "@">>, <<"@", "L", "V">>,
      <<"H", "V", "@", "L", "V", "@", "U", "L", "V">>,
      <<"l", "v">>, <<"L", "U", "V">>, <<"l", "v", "@", "L", "V">>,
      <<"H", "V", "@", "l", "v">>, <<" ", "L", "V">>, <<"L", "V", " ">>,
      <<"V">>, <<"L", "V", "V">>, <<"H", "V", "@", "@", "L", "V">>,
      <<"H", "V", " ", "@", " ", "L", "V">>, <<"Z", "P", "M", "@", "Z", "P">> }

KeyStrings ==
    {TierKey(t) : t \in Tiers} \cup {ClockedKey(t, u) : t \in Tiers, u \in Tiers}
        \cup OtherStrings

\* one call: on a pair of tiers or on a string
InitKey ==
    /\ mach \in [pc : {"call"}, kind : {"tiers"}, tier : Tiers, underclocking : Tiers]
                \cup [pc : {"call"}, kind : {"str"}, s : KeyStrings]
    /\ setups = <<>> /\ explicit_io = {} /\ cache = EmptyCache /\ panicked = FALSE /\ edits = 0
    /\ ns = NsIdle /\ ns_input = NsInputIdle /\ volt = VoltIdle
    /\ chain_machines = <<>> /\ thr = ThrIdle /\ table_rows = NoRows

\* ClockedMachine::new(tier)
ClockedMachineNewCall ==
    /\ mach.pc = "call" /\ mach.kind = "tiers"
    /\ mach' = [pc |-> "made", fn |-> "new", tier |-> mach.tier,
                underclocking |-> mach.underclocking,
                value |-> ClockedMachine_new(mach.tier)]
    /\ UNCHANGED <<chainVars, nsVars, volt, edits, throttleVars, table_rows>>

\* ClockedMachine::with_underclocking(tier, underclocking)
WithUnderclockingCall ==
    /\ mach.pc = "call" /\ mach.kind = "tiers"
    /\ LET r == with_underclocking(mach.tier, mach.underclocking)
       IN  IF r.panic
           THEN /\ mach' = [pc |-> "panic", fn |-> "with_underclocking",
                            tier |-> mach.tier, underclocking |-> mach.underclocking]
                /\ panicked' = TRUE
           ELSE /\ mach' = [pc |-> "made", fn |-> "with_underclocking",
                            tier |-> mach.tier, underclocking |-> mach.underclocking,
                            value |-> r.value]
                /\ UNCHANGED panicked
    /\ UNCHANGED <<setups, explicit_io, cache, nsVars, volt, edits, throttleVars, table_rows>>

\* a key string is deserialized
DeserializeCall ==
    /\ mach.pc = "call" /\ mach.kind = "str"
    /\ mach' = [pc |-> "parsed", fn |-> "deserialize", s |-> mach.s,
                result |-> deserialize(mach.s)]
    /\ UNCHANGED <<chainVars, nsVars, volt, edits, throttleVars, table_rows>>

\* a value that exists is serialized
SerializeCall ==
    /\ mach.pc = "made"
    /\ mach' = [pc |-> "written", fn |-> "serialize", value |-> mach.value,
                s |-> serialize(mach.value)]
    /\ UNCHANGED <<chainVars, nsVars, volt, edits, throttleVars, table_rows>>

\* the serialized form is read back
DeserializeBackCall ==
    /\ mach.pc = "written"
    /\ mach' = [pc |-> "done", fn |-> "deserialize", value |-> mach.value,
                s |-> mach.s, result |-> deserialize(mach.s)]
    /\ UNCHANGED <<chainVars, nsVars, volt, edits, throttleVars, table_rows>>

\* the value a string was deserialized to is written again
SerializeBackCall ==
    /\ mach.pc = "parsed" /\ mach.result.ok
    /\ mach' = [pc |-> "done", fn |-> "serialize", s |-> mach.s,
                result |-> mach.result, back |-> serialize(mach.result.value)]
    /\ UNCHANGED <<chainVars, nsVars, volt, edits, throttleVars, table_rows>>

\* format!("{}", voltage)
VoltageFmtCall ==
    /\ mach.pc = "call" /\ mach.kind = "tiers"
    /\ mach' = [pc |-> "shown", fn |-> "fmt", tier |-> mach.tier,
                s |-> Voltage_fmt(mach.tier)]
    /\ UNCHANGED <<chainVars, nsVars, volt, edits, throttleVars, table_rows>>

\* the formatted voltage is parsed
VoltageParseBackCall ==
    /\ mach.pc = "shown"
    /\ mach' = [pc |-> "done", fn |-> "from_str", tier |-> mach.tier,
                s |-> mach.s, result |-> Voltage_from_str(mach.s)]
    /\ UNCHANGED <<chainVars, nsVars, volt, edits, throttleVars, table_rows>>

\* s.parse::<Voltage>()
VoltageFromStrCall ==
    /\ mach.pc = "call" /\ mach.kind = "str"
    /\ mach' = [pc |-> "read", fn |-> "from_str", s |-> mach.s,
                result |-> Voltage_from_str(mach.s)]
    /\ UNCHANGED <<chainVars, nsVars, volt, edits, throttleVars, table_rows>>

\* the parsed voltage is formatted
VoltageFmtBackCall ==
    /\ mach.pc = "read" /\ mach.result.ok
    /\ mach' = [pc |-> "done", fn |-> "fmt", s |-> mach.s,
                result |-> mach.result, back |-> Voltage_fmt(mach.result.value)]
    /\ UNCHANGED <<chainVars, nsVars, volt, edits, throttleVars, table_rows>>

NextKey ==
    \/ ClockedMachineNewCall
    \/ WithUnderclockingCall
    \/ DeserializeCall
    \/ SerializeCall
    \/ DeserializeBackCall
    \/ SerializeBackCall
    \/ VoltageFmtCall
    \/ VoltageParseBackCall
    \/ VoltageFromStrCall
    \/ VoltageFmtBackCall

SpecKey == InitKey /\ [][NextKey]_vars

\* the ClockedMachine value a state holds, if it holds one
HeldMachines ==
    (IF mach.pc \in {"made", "written"} THEN {mach.value} ELSE {})
        \cup (IF mach.pc \in {"parsed", "done"}
                   /\ mach.fn \in {"deserialize", "serialize"} /\ mach.result.ok
              THEN {mach.result.value} ELSE {})

\* C17: every ClockedMachine value has underclocking <= tier: new gives
\* underclocking = tier, with_underclocking aborts exactly when underclocking
\* > tier, and deserialize returns a value only for "<t>" (the pair t, t) and
\* for "<t>@<u>" with known acronyms and u <= t, and an error otherwise.
C17_UnderclockingAtMostTier ==
    /\ \A m \in HeldMachines :
          m.tier \in Tiers /\ m.underclocking \in Tiers /\ m.underclocking <= m.tier
    /\ (mach.pc = "made" /\ mach.fn = "new") =>
          (mach.value.tier = mach.tier /\ mach.value.underclocking = mach.tier)
    /\ (mach.pc = "made" /\ mach.fn = "with_underclocking") =>
          /\ mach.underclocking <= mach.tier
          /\ mach.value = ClockedMachine(mach.tier, mach.underclocking)
    /\ (mach.pc = "panic" /\ mach.fn = "with_underclocking") =>
          (mach.underclocking > mach.tier /\ panicked)
    /\ (mach.pc = "parsed") =>
          /\ mach.result.ok =>
                \E t \in Tiers, u \in Tiers :
                    /\ u <= t
                    /\ mach.s = ClockedKey(t, u) \/ (t = u /\ mach.s = TierKey(t))
                    /\ mach.result.value = ClockedMachine(t, u)
          /\ ~mach.result.ok =>
                \A t \in Tiers, u \in Tiers :
                    u <= t => (mach.s # ClockedKey(t, u) /\ mach.s # TierKey(t))

\* "LV@HV" was rejected, and so was a key with a third part
C17_Witness ==
    /\ mach.pc = "parsed"
    /\ mach.s \in {ClockedKey(LowVoltage, LowVoltage + 2),
                   <<"H", "V", "@", "L", "V", "@", "U", "L", "V">>}
    /\ ~mach.result.ok

\* C18: string round trips are the identity: parse(format(v)) = v,
\* format(parse(s)) = s for every accepted acronym s, deserialize(serialize(m))
\* = m, and serialize(deserialize(s)) = s for every accepted key s of the form
\* "<tier>" or "<tier>@<underclocking>", "X@X" included.
C18_RoundTrips ==
    mach.pc = "done" =>
        /\ (mach.fn = "from_str") =>
              (mach.result.ok /\ mach.result.value = mach.tier)
        /\ (mach.fn = "fmt") => mach.back = mach.s
        /\ (mach.fn = "deserialize") =>
              (mach.result.ok /\ mach.result.value = mach.value)
        /\ (mach.fn = "serialize") => mach.back = mach.s

\* the round trips without the keys "X@X"
C18_RoundTripsButEqualTiers ==
    mach.pc = "done" =>
        /\ (mach.fn = "from_str") =>
              (mach.result.ok /\ mach.result.value = mach.tier)
        /\ (mach.fn = "fmt") => mach.back = mach.s
        /\ (mach.fn = "deserialize") =>
              (mach.result.ok /\ mach.result.value = mach.value)
        /\ (mach.fn = "serialize" /\ mach.s \notin {ClockedKey(t, t) : t \in Tiers})
              => mach.back = mach.s

(***************************************************************************)
(* The sums of Setup::speed_factor and Machines::eu_per_tick, against the  *)
(* tier a recipe requires.                                                 *)
(***************************************************************************)
HighVoltage == 3

\* the tier a power draw requires: the smallest tier whose maximum is not
\* below the magnitude (the top tier when no tier is large enough)
RequiredTier(bits) ==
    IF \E t \in Tiers : BitsLeq(bits, max_eu_per_tick(t))
    THEN CHOOSE t \in Tiers :
            /\ BitsLeq(bits, max_eu_per_tick(t))
            /\ \A s \in 0 .. (t - 1) : ~BitsLeq(bits, max_eu_per_tick(s))
    ELSE Maximum

RECURSIVE PowerSum(_, _)
\* the sum over the entries of count x base^underclocking
PowerSum(clocked, base) ==
    IF clocked = {} THEN 0
    ELSE LET e == CHOOSE x \in clocked : TRUE
         IN  e.count * base ^ e.underclocking + PowerSum(clocked \ {e}, base)

\* speed_factor = sum of count x 2^(underclocking - r), multiplied out
SpeedSumAgainst(value, clocked, r) ==
    RatMul(value, RatFromInt(2 ^ r)) = RatFromInt(PowerSum(clocked, 2))

\* eu_per_tick = sum of count x e x 4^(underclocking - r), multiplied out
EuSumAgainst(value, clocked, e, r) ==
    value * 4 ^ r = e * PowerSum(clocked, 4)

\* C19: Setup::speed_factor() returns n for Eco(n) on a powerless recipe, and
\* for Power(map) on a powered recipe of required tier r the sum over the
\* entries of count x 2^(underclocking - r), whatever the tiers of the
\* machines; one HV machine clocked to LV on a recipe requiring LV has
\* speed_factor 1 and eu_per_tick equal to the recipe's eu_per_tick.
C19_SpeedFactorSum ==
    (mach.pc = "done" /\ mach.fn = "speed_factor" /\ mach.ok) =>
        /\ (mach.machines.kind = "Eco") =>
              mach.value = RatFromInt(mach.machines.count)
        /\ (mach.machines.kind = "Power") =>
              SpeedSumAgainst(mach.value, mach.machines.clocked,
                              RequiredTier(mach.eu_per_tick.mag))
        /\ (/\ mach.machines = Power({ClockedEntry(HighVoltage, LowVoltage, 1)})
            /\ RequiredTier(mach.eu_per_tick.mag) = LowVoltage) =>
              /\ mach.value = One
              /\ Machines_eu_per_tick(mach.machines, mach.eu_per_tick).value
                    = I64Value(mach.eu_per_tick)

\* the same sum against the tier that Recipe::voltage() computes
C19_SpeedFactorSumOfVoltage ==
    (mach.pc = "done" /\ mach.fn = "speed_factor" /\ mach.ok) =>
        /\ (mach.machines.kind = "Eco") =>
              mach.value = RatFromInt(mach.machines.count)
        /\ (mach.machines.kind = "Power") =>
              SpeedSumAgainst(mach.value, mach.machines.clocked,
                              RecipeVoltage(mach.eu_per_tick.neg, mach.eu_per_tick.mag).tier)

\* C20: Machines::eu_per_tick on Power machines with recipe power e # 0 of
\* required tier r is exactly the sum over the entries of count x e x
\* 4^(underclocking - r), for steps and e of either sign, so that the result
\* for -e is the negated result for e; on Eco machines with e = 0 it is 0.
C20_EuPerTickSum ==
    (mach.pc = "done" /\ mach.fn = "eu_per_tick" /\ mach.ok) =>
        /\ (mach.machines.kind = "Eco") => mach.value = 0
        /\ (mach.machines.kind = "Power") =>
              /\ EuSumAgainst(mach.value, mach.machines.clocked,
                              I64Value(mach.eu_per_tick),
                              RequiredTier(mach.eu_per_tick.mag))
              /\ Machines_eu_per_tick(mach.machines,
                                      [mach.eu_per_tick EXCEPT !.neg = ~mach.eu_per_tick.neg]).value
                    = -mach.value

\* the same sum against the tier that from_signed_eu_per_tick computes; the
\* right shift of line 119 rounds down, so this fails for 17 EU/t at ULV
C20_EuPerTickSumOfVoltage ==
    (mach.pc = "done" /\ mach.fn = "eu_per_tick" /\ mach.ok
        /\ mach.machines.kind = "Power") =>
        EuSumAgainst(mach.value, mach.machines.clocked, I64Value(mach.eu_per_tick),
                     from_signed_eu_per_tick(mach.eu_per_tick.neg, mach.eu_per_tick.mag).tier)

\* and that sum where no machine runs below the recipe's tier
C20_EuPerTickSumOverclocked ==
    (mach.pc = "done" /\ mach.fn = "eu_per_tick" /\ mach.ok
        /\ mach.machines.kind = "Power"
        /\ \A c \in mach.machines.clocked :
              c.underclocking >= from_signed_eu_per_tick(mach.eu_per_tick.neg,
                                                         mach.eu_per_tick.mag).tier) =>
        /\ EuSumAgainst(mach.value, mach.machines.clocked, I64Value(mach.eu_per_tick),
                        from_signed_eu_per_tick(mach.eu_per_tick.neg, mach.eu_per_tick.mag).tier)
        /\ Machines_eu_per_tick(mach.machines,
                                [mach.eu_per_tick EXCEPT !.neg = ~mach.eu_per_tick.neg]).value
              = -mach.value

(***************************************************************************)
(* The assertion of ClockedMachines::eu_per_tick, machine.rs line 120.     *)
(***************************************************************************)
\* C21: the assertion "underclocking should not be able to result in less
\* than 1 eu per tick" never fires: for every nonzero recipe eu_per_tick that
\* has a tier and every clocked machine, also one clocked below the recipe's
\* tier, the shifted energy of one machine is nonzero and the call returns.
C21_AssertNeverFires ==
    (/\ mach.pc # "call" /\ mach.fn = "eu_per_tick"
     /\ mach.machines.kind = "Power" /\ mach.eu_per_tick.mag # {}
     /\ ~from_signed_eu_per_tick(mach.eu_per_tick.neg, mach.eu_per_tick.mag).panic) =>
        /\ mach.pc = "done"
        /\ \A c \in mach.machines.clocked :
              ClockedEu(c, I64Value(mach.eu_per_tick),
                        from_signed_eu_per_tick(mach.eu_per_tick.neg,
                                                mach.eu_per_tick.mag).tier) # 0

\* a machine clocked below the tier of the recipe has returned its energy
C21_Witness ==
    /\ mach.pc = "done" /\ mach.fn = "eu_per_tick" /\ mach.ok
    /\ mach.machines.kind = "Power"
    /\ \E c \in mach.machines.clocked :
          c.underclocking
              < from_signed_eu_per_tick(mach.eu_per_tick.neg, mach.eu_per_tick.mag).tier

(***************************************************************************)
(* The speeds as a function of the persisted data.                         *)
(***************************************************************************)
\* the chain rebuilt from the serialized form of the current one
Rebuilt == Chain_deserialize(Chain_serialize(setups, explicit_io))

\* C22: the weighted speeds depend on the persisted data only: what a chain
\* holds after any history of edits and queries is what the chain rebuilt
\* from its serialized form (same setups and explicit_io, empty cells)
\* computes, so two chains with equal setups and explicit_io agree.
C22_SpeedsOfPersistedData ==
    /\ Rebuilt.ok
    /\ Rebuilt.setups = setups
    /\ Rebuilt.explicit_io = explicit_io
    /\ Rebuilt.cache = EmptyCache
    /\ HasWeightedSpeeds =>
          CachedWeightedSpeeds = FreshWeightedSpeeds(Rebuilt.setups, Rebuilt.explicit_io)

\* weighted speeds held after two edits, one of them of explicit_io and one
\* of a weight
C22_Witness ==
    /\ edits = 2
    /\ HasWeightedSpeeds
    /\ explicit_io # {}
    /\ \E index \in 1 .. Len(setups) : setups[index].weight # 1

(***************************************************************************)
(* The structure of what nullspace() returns.                              *)
(***************************************************************************)
\* the rank of the first k columns, by minors
LeadingRank(m, columns, k) ==
    LET has(n) ==
            \E R \in SUBSET (0 .. (RowCount(m, columns) - 1)) :
                \E C \in SUBSET (0 .. (k - 1)) :
                    /\ Cardinality(R) = n
                    /\ Cardinality(C) = n
                    /\ Det(m, columns, SortedSeq(R), SortedSeq(C)) # Zero
    IN  CHOOSE n \in 0 .. k : has(n) /\ \A n2 \in (n + 1) .. k : ~has(n2)

\* the row of the pivot of column q: the number of pivots to its left
PivotRow(unknowns, q) == Cardinality({p \in 0 .. (q - 1) : ~unknowns[p + 1]})

\* m is in reduced row echelon form with its pivots in the 0-bits of unknowns
IsReduced(m, columns, unknowns) ==
    LET rows == RowCount(m, columns)
        pivots == {q \in 0 .. (columns - 1) : ~unknowns[q + 1]}
    IN  /\ Cardinality(pivots) <= rows
        /\ \A q \in pivots :
              /\ \A r \in 0 .. (rows - 1) :
                    m[r * columns + q] = IF r = PivotRow(unknowns, q) THEN One ELSE Zero
              /\ \A j \in 0 .. (q - 1) : m[PivotRow(unknowns, q) * columns + j] = Zero
        /\ \A r \in Cardinality(pivots) .. (rows - 1), j \in 0 .. (columns - 1) :
              m[r * columns + j] = Zero

\* C23: the bit-vector has one bit per column, 0 where elimination found a
\* pivot (the column is independent of those to its left) and 1 where the
\* column is free; the flat result holds one vector per 1-bit in the order of
\* the free columns; the vector of free column c has 1 at c, 0 to the right
\* of c and at every other free position, and at each pivot column to the
\* left the negated entry of that pivot's row of the reduced matrix in column c.
C23_OutputStructure ==
    ns.pc = "done" =>
        LET m == ns_input.matrix
            columns == ns_input.columns
            u == ns.unknowns
            free == {c \in 0 .. (columns - 1) : u[c + 1]}
            order == SortedSeq(free)
        IN  /\ Len(u) = columns
            /\ \A c \in 0 .. (columns - 1) :
                  (~u[c + 1]) <=> (LeadingRank(m, columns, c + 1) > LeadingRank(m, columns, c))
            /\ IsReduced(ns.matrix, columns, u)
            /\ Len(ns.nullspace) = Cardinality(free) * columns
            /\ \A k \in 0 .. (Cardinality(free) - 1) :
                  LET c == order[k + 1]
                      v == Chunk(ns.nullspace, k, columns)
                  IN  /\ v[c + 1] = One
                      /\ \A j \in (c + 1) .. (columns - 1) : v[j + 1] = Zero
                      /\ \A f \in free \ {c} : v[f + 1] = Zero
                      /\ \A q \in 0 .. (c - 1) :
                            (~u[q + 1]) =>
                                v[q + 1] = RatNeg(ns.matrix[PivotRow(u, q) * columns + c])

\* a free column, then a pivot, then a free column with a nonzero entry in
\* the pivot's row
C23_Witness ==
    /\ ns.pc = "done"
    /\ ns_input.columns = 3
    /\ ns.unknowns = <<TRUE, FALSE, TRUE>>
    /\ ns.nullspace[3 + 2] # Zero

(***************************************************************************)
(* Termination of nullspace().                                             *)
(***************************************************************************)
\* C27: for every matrix with columns >= 1 whose length is a multiple of
\* columns nullspace() returns after exactly `columns` iterations of the
\* outer loop and never aborts: iteration i works on column i and leads on
\* to column i + 1 without an abort, up to the return after the last
\* column, and the pivots found so far never outnumber the rows, so the
\* parameters are never depleted.
C27_TerminatesWithoutAbort ==
    /\ ns.pc = "panic" => ns_input.columns = 0
    /\ ns.pc = "loop" =>
          /\ ns.iterations = ns.st.pivot_column
          /\ ns.iterations <= ns_input.columns
          /\ ns.st.pivot_row_index
                = ns_input.columns * Cardinality({k \in 1 .. Len(ns.st.unknowns) :
                                                     ~ns.st.unknowns[k]})
          /\ ns.st.pivot_row_index <= MatLen(ns_input.matrix)
          /\ ~ns.st.depleted
          /\ ns.st.pivot_column < ns.st.columns =>
                LET next == NullspaceIter(ns.st)
                IN  ~next.depleted /\ next.pivot_column = ns.st.pivot_column + 1
    /\ ns.pc = "done" => ns.iterations = ns_input.columns

\* two columns, three rows, the first row swapped away, both pivots found
C27_Witness ==
    /\ ns.pc = "done"
    /\ ns_input.columns = 2
    /\ MatLen(ns_input.matrix) = 6
    /\ ns_input.matrix[0] = Zero
    /\ ns.unknowns = <<FALSE, FALSE>>

(***************************************************************************)
(* SpecMatrix: chains of up to MaxSetups setups out of a mixed stock, any  *)
(* explicit I/O, read from their persisted form and then queried.          *)
(***************************************************************************)
\* a powered producer of good 2 that is overclocked by one tier and runs a
\* recipe of half a second
PoweredProducer ==
    NewSetup(NewRecipe(TicksPerSecond \div 2, 30, <<>>, <<ProductCount(2, 3)>>),
             Power({ClockedEntry(MediumVoltage, MediumVoltage, 1)}), 1)

\* a consumer of good 1 whose recipe needs power, on powerless machines
MismatchedConsumer ==
    NewSetup(NewRecipe(TicksPerSecond, 30, <<ProductCount(1, 1)>>, <<>>), Eco(1), 1)

\* a setup with good 1 on both sides and good 2 as a catalyst only
Breeder ==
    [NewSetup(NewRecipe(TicksPerSecond, 0, <<ProductCount(1, 1)>>, <<ProductCount(1, 3)>>),
              Eco(2), 1) EXCEPT !.recipe.catalysts = <<2>>]

MatrixStock ==
    {Producer(1), Consumer(1), Converter(1, 2), Consumer(2),
     PoweredProducer, MismatchedConsumer, Breeder}

MatrixGoods == {1, 2}

InitMatrix ==
    /\ setups \in UNION {[1 .. n -> MatrixStock] : n \in 1 .. MaxSetups}
    /\ explicit_io \in SUBSET MatrixGoods
    /\ cache = EmptyCache
    /\ panicked = FALSE /\ edits = 0
    /\ ns = NsIdle /\ ns_input = NsInputIdle /\ volt = VoltIdle /\ mach = MachIdle
    /\ chain_machines = <<>> /\ thr = ThrIdle /\ table_rows = NoRows

NextMatrix == speeds \/ weighted_speeds

SpecMatrix == InitMatrix /\ [][NextMatrix]_vars

\* the goods the claim gives a row: in a consumed list, in a produced list,
\* not explicit I/O
RowGoods ==
    {g \in MatrixGoods :
        /\ g \notin explicit_io
        /\ \E i \in 1 .. Len(setups) : \E j \in 1 .. Len(setups[i].recipe.consumed) :
              setups[i].recipe.consumed[j].product = g
        /\ \E i \in 1 .. Len(setups) : \E j \in 1 .. Len(setups[i].recipe.produced) :
              setups[i].recipe.produced[j].product = g}

\* net count / recipe seconds x speed factor; 0 under a power mismatch
RowEntry(g, setup) ==
    LET speed_factor == Setup_speed_factor(setup)
        net == SumCounts(setup.recipe.produced, g) - SumCounts(setup.recipe.consumed, g)
    IN  IF ~speed_factor.ok THEN Zero
        ELSE RatMul(RatDiv(RatFromInt(net), Rat(setup.recipe.ticks, TicksPerSecond)),
                    speed_factor.value)

AggregateStock ==
    {Producer(1), Converter(1, 2), PoweredProducer, MismatchedConsumer, Breeder}

SpeedValues == {Zero, Rat(1, 2), One}

InitAggregate ==
    /\ setups \in UNION {[1 .. n -> AggregateStock] : n \in 1 .. MaxSetups}
    /\ explicit_io \in SUBSET {1}
    /\ cache = EmptyCache
    /\ panicked = FALSE /\ edits = 0
    /\ ns = NsIdle /\ ns_input = NsInputIdle /\ volt = VoltIdle /\ mach = MachIdle
    /\ chain_machines = <<>> /\ thr = ThrIdle /\ table_rows = NoRows

\* processing_chain.rs lines 82-85, a call with &self
ProductsWithMaxSpeedsCall ==
    /\ ~panicked /\ mach.pc = "idle"
    /\ LET r == products_with_max_speeds(setups)
       IN  /\ mach' = [pc |-> "done", fn |-> "products_with_max_speeds",
                       self |-> [setups |-> setups, explicit_io |-> explicit_io],
                       speeds |-> <<>>, value |-> r]
           /\ panicked' = r.panic
    /\ UNCHANGED <<setups, explicit_io, cache, nsVars, volt, edits, throttleVars, table_rows>>

\* processing_chain.rs lines 88-90, a call with &self
ProductsWithSpeedsCall ==
    /\ ~panicked /\ mach.pc = "idle"
    /\ \E s \in [1 .. Len(setups) -> SpeedValues] :
          LET r == products_with_speeds(setups, s)
          IN  /\ mach' = [pc |-> "done", fn |-> "products_with_speeds",
                          self |-> [setups |-> setups, explicit_io |-> explicit_io],
                          speeds |-> s, value |-> r]
              /\ panicked' = r.panic
    /\ UNCHANGED <<setups, explicit_io, cache, nsVars, volt, edits, throttleVars, table_rows>>

NextAggregate == ProductsWithMaxSpeedsCall \/ ProductsWithSpeedsCall

SpecAggregate == InitAggregate /\ [][NextAggregate]_vars

\* the setups the aggregation counts: those without a power mismatch
Powered(chain_setups) ==
    {i \in 1 .. Len(chain_setups) : Setup_speed_factor(chain_setups[i]).ok}

\* sum over the powered setups of net count / seconds x speed factor x s[i]
GoodSum(chain_setups, s, g) ==
    SumRat([i \in 1 .. Len(chain_setups) |-> RatMul(RowEntry(g, chain_setups[i]), s[i])],
           Powered(chain_setups))

\* sum over the powered setups of the machines' eu_per_tick x s[i]
EuSum(chain_setups, s) ==
    SumRat([i \in 1 .. Len(chain_setups) |->
               RatMul(RatFromInt(Machines_eu_per_tick(chain_setups[i].machines,
                                     I64(chain_setups[i].recipe.eu_per_tick)).value),
                      s[i])],
           Powered(chain_setups))

\* the speeds a finished call worked with
CallSpeeds == IF mach.fn = "products_with_speeds" THEN mach.speeds ELSE AllOnes(Len(setups))

\* C25: for a speed vector s with one entry per setup products_with_speeds
\* returns, for every good, the sum over the correctly powered setups of
\* net count / seconds x speed factor x s[i], and as eu_per_tick the sum of
\* the machines' eu_per_tick x s[i] over those setups;
\* products_with_max_speeds is the same with all ones; the chain's setups
\* and explicit_io stay as they were.
C25_Aggregation ==
    (mach.pc = "done" /\ mach.fn \in {"products_with_speeds", "products_with_max_speeds"}) =>
        /\ ~panicked
        /\ \A g \in MatrixGoods : NetRate(mach.value, g) = GoodSum(setups, CallSpeeds, g)
        /\ DOMAIN mach.value.products_per_sec \subseteq MatrixGoods
        /\ mach.value.eu_per_tick = EuSum(setups, CallSpeeds)
        /\ mach.fn = "products_with_max_speeds" =>
              mach.value = products_with_speeds(setups, AllOnes(Len(setups)))
        /\ mach.self = [setups |-> setups, explicit_io |-> explicit_io]
        /\ cache = EmptyCache

\* a call at mixed speeds on a chain with a powered setup, a mismatched one
\* and a converter, whose good 2 ends up with a rate that is not zero
C25_Witness ==
    /\ mach.pc = "done" /\ mach.fn = "products_with_speeds"
    /\ setups = <<Converter(1, 2), PoweredProducer, MismatchedConsumer>>
    /\ mach.speeds = <<Rat(1, 2), One, One>>
    /\ mach.value.eu_per_tick # Zero
    /\ NetRate(mach.value, 2) # Zero

\* C28: every entry of weighted_speeds() is a relative speed between 0 and 1
\* inclusive, whatever the number of producers and consumers of a good.
C28_SpeedsInUnitInterval ==
    HasWeightedSpeeds =>
        \A i \in 1 .. Len(CachedWeightedSpeeds) :
            /\ RatLeq(Zero, CachedWeightedSpeeds[i])
            /\ RatLeq(CachedWeightedSpeeds[i], One)

(***************************************************************************)
(* The iterative throttling of the earlier chain type, src/processing.rs   *)
(* with the recipes of src/config.rs.  A chain is a sequence of            *)
(* MachineConfiguration records [recipe, machines]; machines maps an       *)
(* Overclocking to a count; consumed and produced are sequences of         *)
(* <<product, count>>.  Rational64 values are exact fractions here, within *)
(* the sizes the bounded chains and rounds produce.                        *)
(***************************************************************************)
MaxRounds == 4

\* config.rs lines 43-45
config_produces(recipe, product) ==
    \E k \in 1 .. Len(recipe.produced) : recipe.produced[k][1] = product

\* config.rs lines 47-49
config_consumes(recipe, product) ==
    \E k \in 1 .. Len(recipe.consumed) : recipe.consumed[k][1] = product

\* config.rs lines 51-68: the produced entries with their counts, then the
\* consumed entries with their counts negated
config_products(recipe) ==
    [k \in 1 .. Len(recipe.produced) |->
        <<recipe.produced[k][1], RatFromInt(recipe.produced[k][2])>>]
    \o [k \in 1 .. Len(recipe.consumed) |->
        <<recipe.consumed[k][1], RatNeg(RatFromInt(recipe.consumed[k][2]))>>]

\* processing.rs lines 161-163 and 166-168: base^overclocking, a fraction
\* for a negative overclocking
RatPow(base, exponent) ==
    IF exponent >= 0 THEN Rat(base ^ exponent, 1) ELSE Rat(1, base ^ (0 - exponent))

Overclocking_speed_factor(overclocking) == RatPow(2, overclocking)

Overclocking_eu_factor(overclocking) == RatPow(4, overclocking)

\* processing.rs lines 137-142
MachineConfiguration_speed_factor(machine_configuration) ==
    SumRat([overclocking \in DOMAIN machine_configuration.machines |->
               RatMul(Overclocking_speed_factor(overclocking),
                      RatFromInt(machine_configuration.machines[overclocking]))],
           DOMAIN machine_configuration.machines)

\* processing.rs lines 145-150
MachineConfiguration_eu_factor(machine_configuration) ==
    SumRat([overclocking \in DOMAIN machine_configuration.machines |->
               RatMul(Overclocking_eu_factor(overclocking),
                      RatFromInt(machine_configuration.machines[overclocking]))],
           DOMAIN machine_configuration.machines)

\* processing.rs lines 184-193, with #[derive(Default)]
ProductPerTick_default == [consumed |-> Zero, produced |-> Zero]

\* processing.rs lines 200-206
ProductPerTick_add(self, count) ==
    IF ~RatLeq(count, Zero)
    THEN [self EXCEPT !.produced = RatAdd(@, count)]
    ELSE [self EXCEPT !.consumed = RatSub(@, count)]

\* processing.rs lines 208-226
is_produced(self) == self.produced # Zero
is_consumed(self) == self.consumed # Zero
is_underproduced(self) == ~RatLeq(self.consumed, self.produced)
is_overproduced(self) == ~RatLeq(self.produced, self.consumed)

\* processing.rs lines 110-115: entry(product).or_default().add(..) for each
\* entry of one recipe
RECURSIVE AddProducts(_, _, _, _)
AddProducts(acc_products, entries, factor, k) ==
    IF k > Len(entries) THEN acc_products
    ELSE LET product == entries[k][1]
             count == RatMul(factor, entries[k][2])
             before == IF product \in DOMAIN acc_products
                       THEN acc_products[product] ELSE ProductPerTick_default
             after == ProductPerTick_add(before, count)
         IN  AddProducts([p \in DOMAIN acc_products \cup {product} |->
                             IF p = product THEN after ELSE acc_products[p]],
                         entries, factor, k + 1)

\* processing.rs lines 100-125: the fold over the machines; recipe_speed is
\* the map of speeds, read at the recipe of each machine configuration
RECURSIVE ThrottleFold(_, _, _, _)
ThrottleFold(acc, chain, recipe_speed, index) ==
    IF index > Len(chain) THEN acc
    ELSE LET machine_configuration == chain[index]
             speed == recipe_speed[machine_configuration.recipe]
             speed_factor == MachineConfiguration_speed_factor(machine_configuration)
         IN  ThrottleFold(
                 [eu |-> ProductPerTick_add(acc.eu,
                            RatMul(RatMul(MachineConfiguration_eu_factor(machine_configuration),
                                          RatFromInt(machine_configuration.recipe.eu_per_tick)),
                                   speed)),
                  products |-> AddProducts(acc.products,
                                           config_products(machine_configuration.recipe),
                                           RatMul(speed_factor, speed), 1)],
                 chain, recipe_speed, index + 1)

\* processing.rs lines 95-97
Throttle_products_with_speeds(chain, speeds_machines) ==
    ThrottleFold([eu |-> ProductPerTick_default, products |-> <<>>],
                 chain, speeds_machines, 1)

\* processing.rs lines 42-53: the goods the filter and the find let through;
\* the BTreeMap is walked in the order of the products, so the loop takes
\* the least of them
Unbalanced(chain, speeds_machines, allow_overproduction) ==
    LET totals == Throttle_products_with_speeds(chain, speeds_machines).products
    IN  {product \in DOMAIN totals :
            /\ is_produced(totals[product]) /\ is_consumed(totals[product])
            /\ \/ is_underproduced(totals[product])
               \/ is_overproduced(totals[product]) /\ product \notin allow_overproduction}

LeastOf(S) == CHOOSE x \in S : \A y \in S : x <= y

\* processing.rs lines 54-66: one round of the loop body
Throttled(chain, speeds_machines, product) ==
    LET total == Throttle_products_with_speeds(chain, speeds_machines).products[product]
        over == ~RatLeq(total.produced, total.consumed)
        throttle == IF over THEN RatDiv(total.consumed, total.produced)
                    ELSE RatDiv(total.produced, total.consumed)
    IN  [recipe \in DOMAIN speeds_machines |->
            IF (IF over THEN config_produces(recipe, product)
                ELSE config_consumes(recipe, product))
            THEN RatMul(speeds_machines[recipe], throttle)
            ELSE speeds_machines[recipe]]

\* the speeds scaled so that the largest is 1
Direction(speeds_machines) ==
    LET values == {speeds_machines[recipe] : recipe \in DOMAIN speeds_machines}
        top == CHOOSE v \in values : \A w \in values : RatLeq(w, v)
    IN  [recipe \in DOMAIN speeds_machines |-> RatDiv(speeds_machines[recipe], top)]

\* a recipe of config.rs on one machine that is not overclocked
ConfigRecipe(consumed, produced) ==
    [machine |-> "machine", ticks |-> TicksPerSecond, eu_per_tick |-> 0,
     catalysts |-> <<>>, consumed |-> consumed, produced |-> produced]

Plain(recipe) == [recipe |-> recipe, machines |-> (0 :> 1)]

\* the same on one machine overclocked once, next to an idle entry
Overclocked(recipe) == [recipe |-> recipe, machines |-> (1 :> 1) @@ (0 :> 0)]

ThrottleGoods == {1, 2}

ThrottleStock ==
    {Plain(ConfigRecipe(<<>>, <<<<1, 2>>>>)),
     Plain(ConfigRecipe(<<>>, <<<<1, 1>>>>)),
     Plain(ConfigRecipe(<<<<1, 1>>>>, <<>>)),
     Overclocked(ConfigRecipe(<<<<1, 1>>>>, <<>>)),
     Plain(ConfigRecipe(<<<<2, 3>>>>, <<>>)),
     Plain(ConfigRecipe(<<<<1, 1>>>>, <<<<2, 1>>>>)),
     Plain(ConfigRecipe(<<<<1, 1>>>>, <<<<2, 2>>>>)),
     Plain(ConfigRecipe(<<<<2, 1>>>>, <<<<1, 2>>>>)),
     Plain(ConfigRecipe(<<<<1, 1>>>>, <<<<1, 2>>>>)),
     Plain(ConfigRecipe(<<<<1, 1>>, <<2, 2>>>>, <<>>))}

InitThrottle ==
    /\ chain_machines \in UNION {[1 .. n -> ThrottleStock] : n \in 0 .. MaxSetups}
    /\ thr \in [pc : {"call"}, allow_overproduction : SUBSET ThrottleGoods]
    /\ setups = <<>> /\ explicit_io = {} /\ cache = EmptyCache /\ panicked = FALSE /\ edits = 0
    /\ ns = NsIdle /\ ns_input = NsInputIdle /\ volt = VoltIdle /\ mach = MachIdle
    /\ table_rows = NoRows

\* processing.rs lines 34-40: every recipe of the chain starts at speed 1
SpeedsBegin ==
    /\ thr.pc = "call"
    /\ thr' = [pc |-> "loop", allow_overproduction |-> thr.allow_overproduction,
               speeds |-> [recipe \in {chain_machines[i].recipe :
                                          i \in 1 .. Len(chain_machines)} |-> One],
               rounds |-> 0, seen |-> {}]
    /\ UNCHANGED <<chainVars, nsVars, volt, mach, edits, chain_machines, table_rows>>

\* processing.rs lines 42-67: the loop test finds a good and the body
\* throttles; seen keeps the directions of the speeds of the earlier rounds
ThrottleRound ==
    /\ thr.pc = "loop"
    /\ thr.rounds < MaxRounds
    /\ Unbalanced(chain_machines, thr.speeds, thr.allow_overproduction) # {}
    /\ LET product == LeastOf(Unbalanced(chain_machines, thr.speeds,
                                         thr.allow_overproduction))
       IN  thr' = [thr EXCEPT !.speeds = Throttled(chain_machines, thr.speeds, product),
                              !.rounds = @ + 1,
                              !.seen = @ \cup {Direction(thr.speeds)}]
    /\ UNCHANGED <<chainVars, nsVars, volt, mach, edits, chain_machines, table_rows>>

\* processing.rs lines 42-53 and 69: the loop test finds nothing
SpeedsReturn ==
    /\ thr.pc = "loop"
    /\ Unbalanced(chain_machines, thr.speeds, thr.allow_overproduction) = {}
    /\ thr' = [thr EXCEPT !.pc = "returned"]
    /\ UNCHANGED <<chainVars, nsVars, volt, mach, edits, chain_machines, table_rows>>

NextThrottle == SpeedsBegin \/ ThrottleRound \/ SpeedsReturn

SpecThrottle == InitThrottle /\ [][NextThrottle]_vars

ReturnedTotals == Throttle_products_with_speeds(chain_machines, thr.speeds).products

\* C29: whenever the iterative speeds() returns (on a chain that has at
\* least one machine configuration), at least one recipe of the returned
\* map runs at exactly 1, every speed is above 0 and at most 1, and every
\* good that is both produced and consumed is exactly balanced unless it is
\* overproduced and allow_overproduction holds for it.
C29_ReturnedSpeeds ==
    (thr.pc = "returned" /\ chain_machines # <<>>) =>
        /\ \E recipe \in DOMAIN thr.speeds : thr.speeds[recipe] = One
        /\ \A recipe \in DOMAIN thr.speeds :
              ~RatLeq(thr.speeds[recipe], Zero) /\ RatLeq(thr.speeds[recipe], One)
        /\ \A product \in DOMAIN ReturnedTotals :
              (is_produced(ReturnedTotals[product]) /\ is_consumed(ReturnedTotals[product])) =>
                  \/ ReturnedTotals[product].produced = ReturnedTotals[product].consumed
                  \/ /\ is_overproduced(ReturnedTotals[product])
                     /\ product \in thr.allow_overproduction

\* C30: the throttling loop of the iterative speeds() terminates.  The loop
\* test and the throttle factors only depend on the ratios between the
\* speeds, so a terminating loop never comes back to a positive multiple of
\* the speeds of an earlier round of the same call.
C30_LoopTerminates ==
    thr.pc = "loop" => Direction(thr.speeds) \notin thr.seen

(***************************************************************************)
(* The editor table, src/ui/processing_chain_table.rs.  The table owns a   *)
(* chain and, per view mode, a cell with the rows built from it.  A row is *)
(* Separator or a function from the columns of the view to <<>> (no        *)
(* cell) or <<cell>>; indices count from 0 as in the source.               *)
(***************************************************************************)
Separator == [separator |-> TRUE]

NONE == {}
CALCULATED == {"Setup", "Speed"}
ALL == ViewModes

\* lines 191-226 (the Time and Eu columns of the source are kept, the order
\* of an EnumSet plays no role for a row that is a map)
columns(view_mode) ==
    CASE view_mode = "Recipe" ->
            {"Machine", "Catalysts", "Consumed", "ConsumedCount", "Produced",
             "ProducedCount", "Time", "Eu"}
      [] view_mode = "Setup" ->
            {"Machine", "Setup", "Catalysts", "Consumed", "ConsumedCount", "Produced",
             "ProducedCount", "Eu"}
      [] view_mode = "Speed" ->
            {"Machine", "Setup", "Catalysts", "Speed", "Consumed", "ConsumedCount",
             "Produced", "ProducedCount", "Eu"}

\* machine.rs lines 151-155: the order of the keys of a power population
RECURSIVE ClockedKeysInOrder(_)
ClockedKeysInOrder(clocked) ==
    IF clocked = {} THEN <<>>
    ELSE LET first == CHOOSE e \in clocked : \A f \in clocked :
                          \/ e.tier < f.tier
                          \/ e.tier = f.tier /\ f.underclocking <= e.underclocking
         IN  <<[tier |-> first.tier, underclocking |-> first.underclocking]>>
             \o ClockedKeysInOrder(clocked \ {first})

\* lines 555-577
product_amounts(listed, setup, speed, kind) ==
    [k \in 1 .. Len(listed) |->
        LET speed_factor == Setup_speed_factor(setup)
        IN  IF speed_factor.ok
            THEN [kind |-> kind, index |-> k - 1,
                  amount |-> RatMul(RatMul(RatDiv(RatFromInt(listed[k].count),
                                                  seconds(setup.recipe)),
                                           speed_factor.value),
                                    speed)]
            ELSE [kind |-> "PowerError"]]

IndexCells(kind, items) == [k \in 1 .. Len(items) |-> [kind |-> kind, index |-> k - 1]]

\* lines 261-319: what each column of one setup holds, top to bottom
SetupColumns(view_mode, setup, speed) ==
    LET eu == Machines_eu_per_tick(setup.machines, I64(setup.recipe.eu_per_tick))
    IN  [column \in columns(view_mode) |->
            CASE column = "Machine" -> <<[kind |-> "Machine"]>>
              [] column = "Setup" ->
                    IF setup.machines.kind = "Eco" THEN <<[kind |-> "SetupEco"]>>
                    ELSE LET keys == ClockedKeysInOrder(setup.machines.clocked)
                         IN  [k \in 1 .. Len(keys) |->
                                 [kind |-> "SetupPower", clocked_machine |-> keys[k]]]
              [] column = "Catalysts" -> IndexCells("Catalyst", setup.recipe.catalysts)
              [] column = "Speed" -> <<[kind |-> "Speed"]>>
              [] column = "Consumed" -> IndexCells("Consumed", setup.recipe.consumed)
              [] column = "ConsumedCount" ->
                    IF view_mode = "Recipe"
                    THEN IndexCells("ConsumedCount", setup.recipe.consumed)
                    ELSE product_amounts(setup.recipe.consumed, setup, speed, "ConsumedAmount")
              [] column = "Produced" -> IndexCells("Produced", setup.recipe.produced)
              [] column = "ProducedCount" ->
                    IF view_mode = "Recipe"
                    THEN IndexCells("ProducedCount", setup.recipe.produced)
                    ELSE product_amounts(setup.recipe.produced, setup, speed, "ProducedAmount")
              [] column = "Time" -> <<[kind |-> "Time"]>>
              [] column = "Eu" ->
                    IF view_mode = "Recipe" THEN <<[kind |-> "EuPerTickRecipe"]>>
                    ELSE IF ~eu.ok THEN <<[kind |-> "PowerError"]>>
                    ELSE IF view_mode = "Setup"
                         THEN <<[kind |-> "EuPerTick", eu |-> RatFromInt(eu.value)]>>
                         ELSE <<[kind |-> "EuPerTick",
                                 eu |-> RatMul(RatFromInt(eu.value), speed)]>>]

\* lines 321-350 and 395-425: a separator, then rows as long as a column
\* still has a cell; wrapper holds the fields of the TableCell around the
\* content
RowsOfColumns(view_mode, cells, wrapper) ==
    LET height == Max({Len(cells[column]) : column \in columns(view_mode)})
    IN  <<Separator>>
        \o [k \in 1 .. height |->
               [column \in columns(view_mode) |->
                   IF k <= Len(cells[column])
                   THEN <<[content |-> cells[column][k]] @@ wrapper>>
                   ELSE <<>>]]

\* lines 255-351
from_setup(view_mode, index, setup, speed) ==
    RowsOfColumns(view_mode, SetupColumns(view_mode, setup, speed),
                  [cell |-> "Setup", index |-> index])

\* the goods of an aggregate whose rate has the given sign, in their order
SignedGoods(aggregate, negative) ==
    SortedSeq({product \in DOMAIN aggregate.products_per_sec :
                  IF negative
                  THEN ~RatLeq(Zero, aggregate.products_per_sec[product])
                  ELSE ~RatLeq(aggregate.products_per_sec[product], Zero)})

\* lines 353-427; aggregate is <<>> in the Recipe view
total(view_mode, aggregate) ==
    IF aggregate = <<>> THEN <<>>
    ELSE LET consumed == SignedGoods(aggregate[1], TRUE)
             produced == SignedGoods(aggregate[1], FALSE)
             amounts == aggregate[1].products_per_sec
             cells ==
                [column \in columns(view_mode) |->
                    CASE column = "Machine" -> <<[kind |-> "Header"]>>
                      [] column = "Consumed" ->
                            [k \in 1 .. Len(consumed) |->
                                [kind |-> "Product", product |-> consumed[k]]]
                      [] column = "ConsumedCount" ->
                            [k \in 1 .. Len(consumed) |->
                                [kind |-> "ProductAmount",
                                 amount |-> RatNeg(amounts[consumed[k]])]]
                      [] column = "Produced" ->
                            [k \in 1 .. Len(produced) |->
                                [kind |-> "Product", product |-> produced[k]]]
                      [] column = "ProducedCount" ->
                            [k \in 1 .. Len(produced) |->
                                [kind |-> "ProductAmount", amount |-> amounts[produced[k]]]]
                      [] column = "Eu" ->
                            <<[kind |-> "EuPerTick", eu |-> aggregate[1].eu_per_tick]>>
                      [] OTHER -> <<>>]
         IN  RowsOfColumns(view_mode, cells, [cell |-> "Total"])

RECURSIVE Flatten(_)
Flatten(seqs) == IF seqs = <<>> THEN <<>> ELSE Head(seqs) \o Flatten(Tail(seqs))

\* lines 133-160: the rows of a view built from the chain; in the Speed view
\* the speeds are those of weighted_speeds().  The Setup view's total calls
\* products_with_unthrottled_speeds(), which the chain type of
\* model/processing_chain.rs has under the name products_with_max_speeds()
BuildRows(view_mode, chain_setups, weighted) ==
    LET count == Len(chain_setups)
        speed_of == IF view_mode = "Speed" THEN weighted ELSE [i \in 1 .. count |-> One]
        aggregate ==
            CASE view_mode = "Recipe" -> <<>>
              [] view_mode = "Setup" -> <<products_with_max_speeds(chain_setups)>>
              [] view_mode = "Speed" -> <<products_with_speeds(chain_setups, weighted)>>
    IN  Flatten([i \in 1 .. count |->
                    from_setup(view_mode, i - 1, chain_setups[i], speed_of[i])])
        \o total(view_mode, aggregate)

\* lines 1346-1348; index is <<>> (None) or <<i>>
insert_or_append(items, index, product) ==
    InsertAt(items, (IF index = <<>> THEN Len(items) ELSE index[1]) + 1, product)

\* lines 1350-1356: both rotations take the item at from to the place to
move_item(items, from, to) ==
    IF from = to THEN items
    ELSE InsertAt(RemoveAt(items, from + 1), to + 1, items[from + 1])

\* machine.rs lines 57-67
into_clocked(machines_of) == IF machines_of.kind = "Power" THEN machines_of ELSE Power({})

\* machine.rs lines 69-79
into_eco(machines_of) == IF machines_of.kind = "Eco" THEN machines_of ELSE Eco(0)

\* Setup::new(machine), called in line 1146; the constructor itself is not
\* part of model/processing_chain.rs: a setup without goods on
\* Machines::default() = Eco(0) with the default weight
Setup_new(machine) ==
    [NewSetup(NewRecipe(1, 0, <<>>, <<>>), Eco(0), 1) EXCEPT !.recipe.machine = machine]

\* the list of a recipe a ProductKind names, and the recipe with that list
\* replaced
ListOf(recipe, kind) ==
    CASE kind = "Catalyst" -> recipe.catalysts
      [] kind = "Consumed" -> recipe.consumed
      [] kind = "Produced" -> recipe.produced

WithList(recipe, kind, items) ==
    CASE kind = "Catalyst" -> [recipe EXCEPT !.catalysts = items]
      [] kind = "Consumed" -> [recipe EXCEPT !.consumed = items]
      [] kind = "Produced" -> [recipe EXCEPT !.produced = items]

\* an entry of a list: a bare product among the catalysts, else a
\* ProductCount with the count NonZeroU64::MIN
NewEntry(kind, product) == IF kind = "Catalyst" THEN product ELSE ProductCount(product, 1)

Renamed(kind, entry, product) ==
    IF kind = "Catalyst" THEN product ELSE [entry EXCEPT !.product = product]

\* the clocked population with the count of one key set, or the key removed
\* for the count 0
WithClocked(clocked, key, count) ==
    {e \in clocked : ~(e.tier = key.tier /\ e.underclocking = key.underclocking)}
    \cup (IF count = 0 THEN {} ELSE {ClockedEntry(key.tier, key.underclocking, count)})

ClockedCount(clocked, key) ==
    IF \E e \in clocked : e.tier = key.tier /\ e.underclocking = key.underclocking
    THEN (CHOOSE e \in clocked :
             e.tier = key.tier /\ e.underclocking = key.underclocking).count
    ELSE 0

\* lines 1137-1344 (the Option index of InsertProduct is index_opt, <<>> or
\* <<i>>): the chain's setups after the action, whether a
\* setups_mut() handle was taken (which empties the chain's cache; the
\* handles machine_mut and catalysts_mut do not), and the returned views
SetupAction_apply(chain_setups, setup_index, action) ==
    LET i == setup_index + 1
        setup == chain_setups[i]
        Edited(recipe) == [chain_setups EXCEPT ![i].recipe = recipe]
        Populated(machines_of) == [chain_setups EXCEPT ![i].machines = machines_of]
        Result(new_setups, through_setups_mut, views) ==
            [setups |-> new_setups, setups_mut |-> through_setups_mut, views |-> views]
    IN  CASE action.kind = "Insert" ->
                Result(InsertAt(chain_setups, i, Setup_new(action.machine)), TRUE, ALL)
          [] action.kind = "Remove" -> Result(RemoveAt(chain_setups, i), TRUE, ALL)
          [] action.kind = "Move" ->
                Result(move_item(chain_setups, setup_index, action.to), TRUE, ALL)
          [] action.kind = "Rename" ->
                Result([chain_setups EXCEPT ![i].recipe.machine = action.machine], FALSE, NONE)
          [] action.kind = "InsertProduct" ->
                Result(Edited(WithList(setup.recipe, action.product_kind,
                           insert_or_append(ListOf(setup.recipe, action.product_kind),
                                            action.index_opt,
                                            NewEntry(action.product_kind, action.product)))),
                       action.product_kind # "Catalyst", ALL)
          [] action.kind = "RemoveProduct" ->
                Result(Edited(WithList(setup.recipe, action.product_kind,
                           RemoveAt(ListOf(setup.recipe, action.product_kind),
                                    action.index + 1))),
                       action.product_kind # "Catalyst", ALL)
          [] action.kind = "MoveProduct" ->
                IF setup_index = action.to_setup
                THEN Result(Edited(WithList(setup.recipe, action.product_kind,
                                move_item(ListOf(setup.recipe, action.product_kind),
                                          action.from, action.to))),
                            action.product_kind # "Catalyst", NONE)
                ELSE LET item == ListOf(setup.recipe, action.product_kind)[action.from + 1]
                         taken == Edited(WithList(setup.recipe, action.product_kind,
                                      RemoveAt(ListOf(setup.recipe, action.product_kind),
                                               action.from + 1)))
                         target == taken[action.to_setup + 1].recipe
                     IN  Result([taken EXCEPT ![action.to_setup + 1].recipe =
                                    WithList(target, action.product_kind,
                                        InsertAt(ListOf(target, action.product_kind),
                                                 action.to + 1, item))],
                                action.product_kind # "Catalyst", NONE)
          [] action.kind = "RenameProduct" ->
                Result(Edited(WithList(setup.recipe, action.product_kind,
                           [ListOf(setup.recipe, action.product_kind)
                               EXCEPT ![action.index + 1] =
                                   Renamed(action.product_kind, @, action.product)])),
                       action.product_kind # "Catalyst", CALCULATED)
          [] action.kind = "SetProducedCount" ->
                Result([chain_setups EXCEPT
                           ![i].recipe.produced[action.index + 1].count = action.count],
                       TRUE, CALCULATED)
          [] action.kind = "SetConsumedCount" ->
                Result([chain_setups EXCEPT
                           ![i].recipe.consumed[action.index + 1].count = action.count],
                       TRUE, CALCULATED)
          [] action.kind = "SetTime" ->
                Result([chain_setups EXCEPT ![i].recipe.ticks = action.ticks],
                       TRUE, CALCULATED)
          [] action.kind = "SetEuPerTick" ->
                Result([chain_setups EXCEPT ![i].recipe.eu_per_tick = action.eu_per_tick],
                       TRUE, CALCULATED)
          [] action.kind = "InsertMachine" ->
                IF action.clocked_machine # <<>>
                THEN LET clocked == into_clocked(setup.machines).clocked
                         key == action.clocked_machine[1]
                     IN  Result(Populated(Power(WithClocked(clocked, key,
                                                   ClockedCount(clocked, key) + 1))),
                                TRUE, ALL)
                ELSE Result(Populated(Eco(into_eco(setup.machines).count + 1)), TRUE, ALL)
          [] action.kind = "SetMachineCount" ->
                IF action.clocked_machine # <<>>
                THEN Result(Populated(Power(WithClocked(into_clocked(setup.machines).clocked,
                                                        action.clocked_machine[1],
                                                        action.count))),
                            TRUE, CALCULATED)
                ELSE Result(Populated(Eco(action.count)), TRUE, CALCULATED)

\* lines 507-532 and 579-679: what showing a cell reads from the chain; a
\* read out of bounds, a missing key or an unreachable!() aborts
CellShows(cell, chain_setups) ==
    cell.cell = "Setup" =>
        /\ cell.index < Len(chain_setups)
        /\ LET setup == chain_setups[cell.index + 1]
               content == cell.content
           IN  CASE content.kind = "Catalyst" -> content.index < Len(setup.recipe.catalysts)
                 [] content.kind \in {"Consumed", "ConsumedCount", "ConsumedAmount"} ->
                       content.index < Len(setup.recipe.consumed)
                 [] content.kind \in {"Produced", "ProducedCount", "ProducedAmount"} ->
                       content.index < Len(setup.recipe.produced)
                 [] content.kind = "SetupEco" -> setup.machines.kind = "Eco"
                 [] content.kind = "SetupPower" ->
                       /\ setup.machines.kind = "Power"
                       /\ ClockedCount(setup.machines.clocked, content.clocked_machine) > 0
                 [] OTHER -> TRUE

RowsShow(view_mode, shown, chain_setups) ==
    \A k \in 1 .. Len(shown) :
        shown[k] # Separator =>
            \A column \in columns(view_mode) :
                shown[k][column] # <<>> => CellShows(shown[k][column][1], chain_setups)

MaxTableEdits == 1

TableGoods == {1, 2}

\* a chain with a good made and used, and one whose setups hold two goods
\* each, a catalyst and a powered population
TableChains ==
    {<<Producer(1), Consumer(1)>>,
     <<NewSetup(NewRecipe(TicksPerSecond, 0, <<>>, <<ProductCount(1, 2), ProductCount(2, 1)>>),
                Eco(1), 1),
       [NewSetup(NewRecipe(TicksPerSecond, 30,
                           <<ProductCount(1, 1), ProductCount(2, 3)>>, <<>>),
                 Power({ClockedEntry(MediumVoltage, LowVoltage, 1)}), 1)
           EXCEPT !.recipe.catalysts = <<1>>]>>}

InitTable ==
    /\ setups \in TableChains
    /\ explicit_io = {}
    /\ cache = EmptyCache
    /\ table_rows = NoRows
    /\ panicked = FALSE /\ edits = 0
    /\ ns = NsIdle /\ ns_input = NsInputIdle /\ volt = VoltIdle /\ mach = MachIdle
    /\ chain_machines = <<>> /\ thr = ThrIdle

ProductKinds == {"Catalyst", "Consumed", "Produced"}

ClockedChoices(setup) ==
    {<<>>, <<[tier |-> LowVoltage, underclocking |-> LowVoltage]>>}
    \cup {<<[tier |-> e.tier, underclocking |-> e.underclocking]>> : e \in setup.machines.clocked}

\* the actions the cells of setup i can hand to show, with indices inside
\* the lists they point into
SetupActions(chain_setups, i) ==
    LET setup == chain_setups[i + 1]
        Places(kind) == 0 .. (Len(ListOf(setup.recipe, kind)) - 1)
    IN  (IF Len(chain_setups) < MaxSetups
         THEN {[kind |-> "Insert", machine |-> "other"]} ELSE {})
        \cup {[kind |-> "Remove"]}
        \cup {[kind |-> "Move", to |-> to] : to \in 0 .. (Len(chain_setups) - 1)}
        \cup {[kind |-> "Rename", machine |-> "other"]}
        \cup UNION {{[kind |-> "InsertProduct", product_kind |-> kind, index_opt |-> index,
                      product |-> product] :
                        index \in {<<>>, <<0>>}, product \in TableGoods} :
                    kind \in {k \in ProductKinds : Len(ListOf(setup.recipe, k)) < 2}}
        \cup UNION {{[kind |-> "RemoveProduct", product_kind |-> kind, index |-> index] :
                        index \in Places(kind)} : kind \in ProductKinds}
        \cup UNION {UNION {{[kind |-> "MoveProduct", product_kind |-> kind, from |-> from,
                             to_setup |-> to_setup, to |-> to] :
                               from \in Places(kind),
                               to \in 0 .. (IF to_setup = i
                                            THEN Len(ListOf(setup.recipe, kind)) - 1
                                            ELSE Len(ListOf(chain_setups[to_setup + 1].recipe,
                                                            kind)))} :
                           to_setup \in 0 .. (Len(chain_setups) - 1)} : kind \in ProductKinds}
        \cup UNION {{[kind |-> "RenameProduct", product_kind |-> kind, index |-> index,
                      product |-> product] :
                        index \in Places(kind), product \in TableGoods} : kind \in ProductKinds}
        \cup {[kind |-> "SetProducedCount", index |-> index, count |-> count] :
                 index \in Places("Produced"), count \in 1 .. MaxCount}
        \cup {[kind |-> "SetConsumedCount", index |-> index, count |-> count] :
                 index \in Places("Consumed"), count \in 1 .. MaxCount}
        \cup {[kind |-> "SetTime", ticks |-> ticks] :
                 ticks \in {TicksPerSecond \div 2, TicksPerSecond}}
        \cup {[kind |-> "SetEuPerTick", eu_per_tick |-> eu] : eu \in {0, 30}}
        \cup {[kind |-> "InsertMachine", clocked_machine |-> clocked_machine] :
                 clocked_machine \in ClockedChoices(setup)}
        \cup {[kind |-> "SetMachineCount", clocked_machine |-> clocked_machine,
               count |-> count] :
                 clocked_machine \in ClockedChoices(setup), count \in 0 .. MaxMachines}

\* lines 133-160 with 72: rows() of a view, built on the first call and
\* kept; then lines 73-114: every cell of the rows is shown against the chain
TableShow ==
    /\ ~panicked
    /\ \E view_mode \in ViewModes :
          LET s == IF cache.speeds # <<>>
                   THEN [panic |-> FALSE,
                         weighted_setups |-> cache.speeds[1].weighted_setups,
                         speeds |-> cache.speeds[1].speeds]
                   ELSE Speeds_new(setups, explicit_io)
              w == IF cache.weighted_speeds # <<>>
                   THEN [panic |-> FALSE, speeds |-> cache.weighted_speeds[1]]
                   ELSE WeightedSpeeds_new(s, setups)
              build == table_rows[view_mode] = <<>>
              solve == build /\ view_mode = "Speed" /\ cache.weighted_speeds = <<>>
              shown == IF build THEN BuildRows(view_mode, setups, w.speeds)
                       ELSE table_rows[view_mode][1]
          IN  IF solve /\ (s.panic \/ w.panic)
              THEN panicked' = TRUE /\ UNCHANGED <<cache, table_rows>>
              ELSE /\ cache' = IF solve
                               THEN [speeds |-> Some([weighted_setups |-> s.weighted_setups,
                                                      speeds |-> s.speeds]),
                                     weighted_speeds |-> Some(w.speeds)]
                               ELSE cache
                   /\ table_rows' = [table_rows EXCEPT ![view_mode] = <<shown>>]
                   /\ panicked' = ~RowsShow(view_mode, shown, setups)
    /\ UNCHANGED <<setups, explicit_io, nsVars, volt, mach, edits, throttleVars>>

\* lines 1060-1068 (Action::Setup) and 116-120: the action is applied and
\* the rows of the returned views are dropped
ExecuteSetupAction ==
    /\ ~panicked
    /\ edits < MaxTableEdits
    /\ \E i \in 0 .. (Len(setups) - 1) : \E action \in SetupActions(setups, i) :
          LET r == SetupAction_apply(setups, i, action)
          IN  /\ setups' = r.setups
              /\ cache' = IF r.setups_mut THEN EmptyCache ELSE cache
              /\ table_rows' = [view_mode \in ViewModes |->
                                   IF view_mode \in r.views THEN <<>>
                                   ELSE table_rows[view_mode]]
              /\ mach' = [pc |-> "done", fn |-> "execute", index |-> i, action |-> action,
                          views |-> r.views]
    /\ edits' = edits + 1
    /\ UNCHANGED <<explicit_io, panicked, nsVars, volt, throttleVars>>

\* lines 1060-1068 (Action::ReplaceProduct) and 116-120
ExecuteReplaceProduct ==
    /\ ~panicked
    /\ edits < MaxTableEdits
    /\ \E old \in TableGoods, new \in TableGoods :
          /\ old # new
          /\ ReplaceProduct(old, new)
          /\ mach' = [pc |-> "done", fn |-> "execute", index |-> 0,
                      action |-> [kind |-> "ReplaceProduct", old |-> old, new |-> new],
                      views |-> ALL]
    /\ table_rows' = NoRows
    /\ edits' = edits + 1
    /\ UNCHANGED <<nsVars, volt, throttleVars>>

NextTable == TableShow \/ ExecuteSetupAction \/ ExecuteReplaceProduct

SpecTable == InitTable /\ [][NextTable]_vars

\* the rows a view would get from the chain as it is now
FreshRows(view_mode) ==
    BuildRows(view_mode, setups,
              IF view_mode = "Speed" THEN FreshWeightedSpeeds(setups, explicit_io) ELSE <<>>)

\* C26: after an editor action and the clearing of the views it returned,
\* every view whose rows are still kept has exactly the rows a rebuild from
\* the chain gives: no kept row points at a setup or product index that is
\* gone or carries an outdated amount.
C26_NoStaleRows ==
    ~panicked =>
        \A view_mode \in ViewModes :
            table_rows[view_mode] # <<>> => table_rows[view_mode][1] = FreshRows(view_mode)

====
